---- MODULE Spec2Model ----
(***************************************************************************)
(* The asynchronous query engine of dighost.c (src/unnamed/part_000):      *)
(* the lookup queue, the per-lookup query list, the UDP/TCP transport      *)
(* (sockets, posted connects / receives / sends and their completion       *)
(* events), the lookup timer, the follow-up generator and cancellation.    *)
(*                                                                         *)
(* Every event handler of the source is one action.  A handler and the     *)
(* functions it calls are operators that map a state record (the mutable   *)
(* globals of the source, gathered by State) to the state record the       *)
(* handler leaves behind.                                                  *)
(*                                                                         *)
(* The socket and timer libraries are the environment.  A connect or a     *)
(* receive is "posted" until its completion event is delivered, with       *)
(* result success or error.  isc_socket_cancel turns a posted operation    *)
(* into an event with result ISC_R_CANCELED ("canceled"), unless the       *)
(* library had already queued its completion event: that event ("queued")  *)
(* keeps its result.  Which operations had completed when a handler runs   *)
(* is an input of the handler's action (raced).  Events are delivered in   *)
(* any order.                                                              *)
(***************************************************************************)
EXTENDS Integers, Sequences, FiniteSets, TLC

VARIABLES
    lookup_list,      \* ISC_LIST(dig_lookup_t) lookup_list: ids of the queued lookups
    current_lookup,   \* dig_lookup_t *current_lookup: a lookup id, 0 is NULL
    lookups,          \* every dig_lookup_t ever allocated, by id
    sockcount,        \* int sockcount
    sendcount,        \* int sendcount
    recvcount,        \* int recvcount
    lookup_counter,   \* int lookup_counter
    requeued,         \* history: lookups made by requeue_lookup since lookup_counter was reset
    cancel_now,       \* isc_boolean_t cancel_now
    exitcode,         \* int exitcode
    fixedsearch,      \* dig_searchlist_t *fixedsearch != NULL
    halted,           \* "" while running; the fatal() or failed INSIST that ended the process
    shutdowns,        \* number of calls of dighost_shutdown()
    started,          \* onrun_callback has run
    validated,        \* isc_boolean_t validated
    lookup_lock,      \* isc_mutex_t lookup_lock: TRUE while it is held
    server_list,      \* dig_serverlist_t server_list (configuration)
    search_list,      \* number of entries of search_list (configuration)
    usesearch,        \* isc_boolean_t usesearch (configuration)
    have_domain,      \* isc_boolean_t have_domain (configuration)
    fixeddomain,      \* fixeddomain[0] != 0 (configuration)
    specified_source, \* isc_boolean_t specified_source (configuration)
    debugging,        \* isc_boolean_t debugging (configuration)
    tries,            \* int tries (configuration)
    timeout,          \* unsigned int timeout (configuration)
    key               \* dns_tsigkey_t *key != NULL (configuration)

config == <<server_list, search_list, usesearch, have_domain, fixeddomain,
            specified_source, debugging, tries, timeout, key>>

vars == <<lookup_list, current_lookup, lookups, sockcount, sendcount, recvcount,
          lookup_counter, requeued, cancel_now, exitcode, fixedsearch, halted,
          shutdowns, started, validated, lookup_lock, config>>

(***************************************************************************)
(* Bounds of the model.                                                    *)
(***************************************************************************)
\* largest number of lookups the driver seeds before the event loop starts
NumSeeds == 2
\* largest number of sends in flight: the library completes a send before
\* a handler posts more than this many
MaxSends == 2
\* longest server list (configured, or built from the NS records of a reply)
MaxServers == 2
\* LOOKUP_LIMIT of dig/dig.h, which is not among the sources: the model
\* takes a small value so that the limit is reached
LOOKUP_LIMIT == 2
\* MXSERV of dig/dig.h (cap on the servers taken from the root probe)
MXSERV == 1
\* SERVER_TIMEOUT, UDP_TIMEOUT and TCP_TIMEOUT of dig/dig.h, in seconds
SERVER_TIMEOUT == 1
UDP_TIMEOUT == 5
TCP_TIMEOUT == 10
\* INT_MAX of <limits.h>
INT_MAX == 2147483647
\* the timeout the user gives in the setups that have one
UserTimeout == 3
\* largest value of the global tries
MaxTries == 2
\* a counter of the history saturates here
Many == 2

NULL == 0
\* lookup->origin when it points at fixedsearch
FIXED == -1

\* the address families of a server; bind_address is of family "inet"
Families == {"inet", "inet6"}

(***************************************************************************)
(* List helpers (isc/list.h).                                              *)
(***************************************************************************)
RECURSIVE Position(_, _, _)
Position(seq, x, i) ==
    IF i > Len(seq) THEN 0
    ELSE IF seq[i] = x THEN i ELSE Position(seq, x, i + 1)

\* ISC_LIST_HEAD
ISC_LIST_HEAD(seq) == IF seq = <<>> THEN NULL ELSE seq[1]

\* ISC_LIST_NEXT of the element x linked on seq
ISC_LIST_NEXT(seq, x) ==
    LET p == Position(seq, x, 1)
    IN  IF p = 0 \/ p = Len(seq) THEN NULL ELSE seq[p + 1]

\* ISC_LIST_UNLINK / ISC_LIST_DEQUEUE
ISC_LIST_UNLINK(seq, x) == SelectSeq(seq, LAMBDA y : y # x)

Bump(n) == IF n < Many THEN n + 1 ELSE Many

(***************************************************************************)
(* dig_query_t as setup_lookup creates it.  connect_ev and recv_ev are the *)
(* socket library's view of the posted connect and the posted receive;     *)
(* recv_cb is the handler the receive was posted with.  first_repeat_rcvd  *)
(* is not initialised by the source: "junk" until it is written ("set":    *)
(* ISC_TRUE, the one value the source assigns).                            *)
(* cleared counts the calls of clear_query on this query (history).        *)
(***************************************************************************)
NewQuery(serv) ==
    [ servname          |-> serv,
      sock              |-> FALSE,
      waiting_connect   |-> FALSE,
      recv_made         |-> FALSE,
      first_soa_rcvd    |-> FALSE,
      first_rr_serial   |-> 0,
      second_rr_rcvd    |-> FALSE,
      second_rr_serial  |-> 0,
      first_repeat_rcvd |-> "junk",
      rr_count          |-> 0,
      msgs              |-> 0,
      tcp_continuation  |-> FALSE,
      connect_ev        |-> "none",
      recv_ev           |-> "none",
      recv_cb           |-> "none",
      cleared           |-> 0 ]

(***************************************************************************)
(* make_empty_lookup.  The fields from phase on are history: phase is      *)
(* "queued", "current" or "freed"; cancelled is set by cancel_lookup and   *)
(* cancel_all; answers, errors and followups count the printmessage calls  *)
(* for a response, the error lines printed and the follow-up lookups       *)
(* queued; reported counts the printmessage calls for the response handled *)
(* last, and twice that some response was printed more than once; stale    *)
(* says that the lookup was already cancelled when the                     *)
(* response handled last arrived, and late that such a response was        *)
(* printed, handed to followup_lookup or handed to check_for_more_data;    *)
(* clean records, when the lookup is freed, that every query of it had     *)
(* been cleared exactly once; sends lists the queries send_udp has sent    *)
(* to, in order; parent is the lookup this one was cloned from.            *)
(***************************************************************************)
make_empty_lookup ==
    [ pending        |-> TRUE,
      manydots       |-> FALSE,
      rdtype         |-> "a",
      timer          |-> "null",
      interval       |-> 0,
      msgcounter     |-> 0,
      xfr_q          |-> NULL,
      current_query  |-> NULL,
      doing_xfr      |-> FALSE,
      ixfr_serial    |-> 0,
      defname        |-> FALSE,
      trace          |-> FALSE,
      trace_root     |-> FALSE,
      ignore         |-> FALSE,
      servfail_stops |-> FALSE,
      ns_search_only |-> FALSE,
      origin         |-> NULL,
      retries        |-> tries,
      nsfound        |-> 0,
      tcp_mode       |-> FALSE,
      new_search     |-> FALSE,
      q              |-> <<>>,
      queries        |-> <<>>,
      my_server_list |-> <<>>,
      phase          |-> "queued",
      cancelled      |-> FALSE,
      answers        |-> 0,
      errors         |-> 0,
      followups      |-> 0,
      reported       |-> 0,
      twice          |-> FALSE,
      stale          |-> FALSE,
      late           |-> FALSE,
      clean          |-> TRUE,
      single         |-> TRUE,
      sends          |-> <<>>,
      parent         |-> NULL ]

(***************************************************************************)
(* The mutable globals as one record, and their installation as the next   *)
(* state.  raced is the input of the running handler: the queries of the   *)
(* current lookup whose posted operation the library had completed.        *)
(***************************************************************************)
State ==
    [ lookup_list    |-> lookup_list,
      current_lookup |-> current_lookup,
      lookups        |-> lookups,
      sockcount      |-> sockcount,
      sendcount      |-> sendcount,
      recvcount      |-> recvcount,
      lookup_counter |-> lookup_counter,
      requeued       |-> requeued,
      cancel_now     |-> cancel_now,
      exitcode       |-> exitcode,
      fixedsearch    |-> fixedsearch,
      halted         |-> halted,
      shutdowns      |-> shutdowns,
      validated      |-> validated,
      lookup_lock    |-> lookup_lock,
      raced          |-> {} ]

Install(s) ==
    /\ lookup_list' = s.lookup_list
    /\ current_lookup' = s.current_lookup
    /\ lookups' = s.lookups
    /\ sockcount' = s.sockcount
    /\ sendcount' = s.sendcount
    /\ recvcount' = s.recvcount
    /\ lookup_counter' = s.lookup_counter
    /\ requeued' = s.requeued
    /\ cancel_now' = s.cancel_now
    /\ exitcode' = s.exitcode
    /\ fixedsearch' = s.fixedsearch
    /\ halted' = s.halted
    /\ shutdowns' = s.shutdowns
    /\ validated' = s.validated
    /\ lookup_lock' = s.lookup_lock
    /\ sendcount' <= MaxSends
    /\ UNCHANGED config

\* the process is still running in s
Running(s) == s.halted = ""

\* fatal(): exitcode is raised to at least 10 and the process exits
fatal(s, why) ==
    IF ~Running(s) THEN s
    ELSE [s EXCEPT !.halted = why,
                   !.exitcode = IF @ < 10 THEN 10 ELSE @]

\* a failed INSIST / REQUIRE aborts the process
insist_failed(s, why) ==
    IF ~Running(s) THEN s ELSE [s EXCEPT !.halted = why]

(***************************************************************************)
(* LOCK_LOOKUP and UNLOCK_LOOKUP (lines 135-144).  The handlers run one at *)
(* a time in global_task and cancel_all in the thread of the interrupt; a  *)
(* thread that locks the mutex while it is held does not return from       *)
(* isc_mutex_lock, which ends the run of the model.  locked is the test    *)
(* the model makes where current_lookup, the counters or the queue are     *)
(* used: a use without the lock is a data race.                            *)
(***************************************************************************)
LOCK_LOOKUP(s) ==
    IF ~Running(s) THEN s
    ELSE IF s.lookup_lock THEN [s EXCEPT !.halted = "isc_mutex_lock: held"]
    ELSE [s EXCEPT !.lookup_lock = TRUE]

UNLOCK_LOOKUP(s) ==
    IF ~Running(s) THEN s
    ELSE IF ~s.lookup_lock THEN fatal(s, "isc_mutex_unlock")
    ELSE [s EXCEPT !.lookup_lock = FALSE]

locked(s) ==
    IF ~Running(s) \/ s.lookup_lock THEN s
    ELSE [s EXCEPT !.halted = "data race"]

\* history: the response being handled goes up (to the printer, to
\* followup_lookup or to check_for_more_data)
Upward(s, l) ==
    IF ~Running(s) THEN s
    ELSE [s EXCEPT !.lookups[l].late = @ \/ s.lookups[l].stale]

(***************************************************************************)
(* check_if_done: hand control to dighost_shutdown() when nothing is left. *)
(***************************************************************************)
check_if_done(s) ==
    IF ~Running(locked(s)) THEN locked(s)
    ELSE IF s.lookup_list = <<>> /\ s.current_lookup = NULL /\ s.sendcount = 0
    THEN IF s.sockcount # 0 THEN insist_failed(s, "INSIST(sockcount == 0)")
         ELSE IF s.recvcount # 0 THEN insist_failed(s, "INSIST(recvcount == 0)")
         ELSE [s EXCEPT !.shutdowns = Bump(@)]
    ELSE s

(***************************************************************************)
(* clear_query: unlink the query from its lookup, release its socket and   *)
(* free it.                                                                *)
(***************************************************************************)
\* clear_query as it would be if it released the socket without counting it
clear_query_uncounted(s, l, q) ==
    IF ~Running(s) THEN s
    ELSE LET qu == s.lookups[l].queries[q]
         IN  [s EXCEPT !.lookups[l].current_query = IF @ = q THEN NULL ELSE @,
                       !.lookups[l].q = ISC_LIST_UNLINK(@, q),
                       !.lookups[l].queries[q] =
                           [NewQuery(qu.servname) EXCEPT
                               !.connect_ev = qu.connect_ev,
                               !.recv_ev = qu.recv_ev,
                               !.recv_cb = qu.recv_cb,
                               !.cleared = Bump(qu.cleared)]]

\* clear_query as it would be if it left current_query alone
clear_query_keeps_current(s, l, q) ==
    IF ~Running(s) THEN s
    ELSE LET qu == s.lookups[l].queries[q]
         IN  [s EXCEPT !.lookups[l].q = ISC_LIST_UNLINK(@, q),
                       !.lookups[l].queries[q] =
                           [NewQuery(qu.servname) EXCEPT
                               !.connect_ev = qu.connect_ev,
                               !.recv_ev = qu.recv_ev,
                               !.recv_cb = qu.recv_cb,
                               !.cleared = Bump(qu.cleared)],
                       !.sockcount = IF qu.sock THEN @ - 1 ELSE @]

\* clear_query as it would be without the test "query->sock != NULL"
clear_query_unguarded(s, l, q) ==
    IF ~Running(s) THEN s
    ELSE LET qu == s.lookups[l].queries[q]
         IN  [s EXCEPT !.lookups[l].current_query = IF @ = q THEN NULL ELSE @,
                       !.lookups[l].q = ISC_LIST_UNLINK(@, q),
                       !.lookups[l].queries[q] =
                           [NewQuery(qu.servname) EXCEPT
                               !.connect_ev = qu.connect_ev,
                               !.recv_ev = qu.recv_ev,
                               !.recv_cb = qu.recv_cb,
                               !.cleared = Bump(qu.cleared)],
                       !.sockcount = @ - 1]

clear_query(s, l, q) ==
    IF ~Running(s) THEN s
    ELSE LET qu == s.lookups[l].queries[q]
         IN  [s EXCEPT !.lookups[l].current_query = IF @ = q THEN NULL ELSE @,
                       !.lookups[l].q = ISC_LIST_UNLINK(@, q),
                       !.lookups[l].queries[q] =
                           [NewQuery(qu.servname) EXCEPT
                               !.connect_ev = qu.connect_ev,
                               !.recv_ev = qu.recv_ev,
                               !.recv_cb = qu.recv_cb,
                               !.cleared = Bump(qu.cleared)],
                       !.sockcount = IF qu.sock THEN @ - 1 ELSE @]

\* isc_socket_detach(&query->sock); sockcount--; INSIST(sockcount >= 0)
detach_sock(s, l, q) ==
    IF ~Running(s) THEN s
    ELSE LET s1 == [s EXCEPT !.lookups[l].queries[q].sock = FALSE,
                             !.sockcount = @ - 1]
         IN  IF s1.sockcount < 0 THEN insist_failed(s1, "INSIST(sockcount >= 0)")
             ELSE s1

(***************************************************************************)
(* isc_socket_cancel(sock, task, ISC_SOCKCANCEL_ALL): the connect and the  *)
(* receive still posted on the socket complete with ISC_R_CANCELED; events *)
(* already queued keep their result.                                       *)
(***************************************************************************)
isc_socket_cancel(s, l, q) ==
    LET after == IF q \in s.raced THEN "queued" ELSE "canceled"
    IN  [s EXCEPT !.lookups[l].queries[q].connect_ev =
                      IF @ = "posted" THEN after ELSE @,
                  !.lookups[l].queries[q].recv_ev =
                      IF @ = "posted" THEN after ELSE @]

(***************************************************************************)
(* cancel_lookup: cancel the socket of every query that has one, clear the *)
(* others, detach the timer, clear pending and zero retries.               *)
(***************************************************************************)
RECURSIVE cancel_queries(_, _, _)
cancel_queries(s, l, qs) ==
    IF qs = <<>> \/ ~Running(s) THEN s
    ELSE LET q == Head(qs)
             s1 == IF s.lookups[l].queries[q].sock
                   THEN check_if_done(isc_socket_cancel(s, l, q))
                   ELSE clear_query(s, l, q)
         IN  cancel_queries(s1, l, Tail(qs))

cancel_lookup(s, l) ==
    IF ~Running(s) THEN s
    ELSE LET s1 == cancel_queries(s, l, s.lookups[l].q)
         IN  IF ~Running(s1) THEN s1
             ELSE [s1 EXCEPT !.lookups[l].timer = "null",
                             !.lookups[l].interval = 0,
                             !.lookups[l].pending = FALSE,
                             !.lookups[l].retries = 0,
                             !.lookups[l].cancelled = TRUE]

(***************************************************************************)
(* try_clear_lookup: free the lookup.  The early return for a lookup that  *)
(* still has queries sits inside "if (debugging)".  What is kept of a      *)
(* freed lookup is its history: late, twice, reported, clean, and single,   *)
(* which says                                                              *)
(* that the lookup was never started or that exactly one of the outcomes   *)
(* of Outcomes had occurred; and those of                                  *)
(* its queries that still have an event on its way, which will be          *)
(* delivered to freed memory.                                              *)
(***************************************************************************)
Outcomes(lk) ==
    {k \in {"answer", "error", "cancelled"} :
        \/ k = "answer" /\ lk.answers > 0
        \/ k = "error" /\ lk.errors > 0
        \/ k = "cancelled" /\ lk.cancelled /\ lk.answers = 0 /\ lk.errors = 0}

Freed(lk) ==
    [make_empty_lookup EXCEPT
        !.pending = FALSE,
        !.retries = 0,
        !.phase = "freed",
        !.late = lk.late,
        !.twice = lk.twice,
        !.reported = lk.reported,
        !.single = lk.phase = "queued" \/ Cardinality(Outcomes(lk)) = 1,
        !.queries = SelectSeq(
                        [i \in 1..Len(lk.queries) |->
                            [lk.queries[i] EXCEPT !.sock = FALSE,
                                                  !.cleared = IF @ = 0 THEN 1 ELSE @]],
                        LAMBDA qu : qu.connect_ev # "none" \/ qu.recv_ev # "none"),
        !.clean = /\ lk.q = <<>>
                  /\ \A i \in 1..Len(lk.queries) : lk.queries[i].cleared = 1]

try_clear_lookup(s, l) ==
    IF ~Running(s) THEN [s |-> s, ret |-> FALSE]
    ELSE IF s.lookups[l].q # <<>> /\ debugging THEN [s |-> s, ret |-> FALSE]
    ELSE [s |-> [s EXCEPT !.lookups[l] = Freed(@)], ret |-> TRUE]

(***************************************************************************)
(* clone_lookup and requeue_lookup.  clone_lookup copies neither origin    *)
(* nor new_search.  requeue_lookup returns the state and the id of the new *)
(* lookup, which it puts at the head of lookup_list.                       *)
(***************************************************************************)
clone_lookup(lookold, servers) ==
    [make_empty_lookup EXCEPT
        !.manydots = lookold.manydots,
        !.rdtype = lookold.rdtype,
        !.doing_xfr = lookold.doing_xfr,
        !.ixfr_serial = lookold.ixfr_serial,
        !.defname = lookold.defname,
        !.trace = lookold.trace,
        !.trace_root = lookold.trace_root,
        !.ignore = lookold.ignore,
        !.servfail_stops = lookold.servfail_stops,
        !.ns_search_only = lookold.ns_search_only,
        !.tcp_mode = lookold.tcp_mode,
        !.retries = lookold.retries,
        !.my_server_list = IF servers THEN lookold.my_server_list ELSE <<>>]

\* requeue_lookup without its limit test
requeue_lookup_unlimited(s, l, servers) ==
    IF ~Running(s) THEN [s |-> s, ret |-> NULL]
    ELSE LET looknew == Len(s.lookups) + 1
             rec == [clone_lookup(s.lookups[l], servers) EXCEPT !.parent = l]
         IN  [s |-> [s EXCEPT
                        !.lookup_counter = @ + 1,
                        !.requeued = @ + 1,
                        !.lookups = Append(@, rec),
                        !.lookup_list = <<looknew>> \o @,
                        !.lookups[l].followups = Bump(@)],
              ret |-> looknew]

requeue_lookup(s, l, servers) ==
    IF ~Running(s) THEN [s |-> s, ret |-> NULL]
    ELSE LET s1 == [s EXCEPT !.lookup_counter = @ + 1]
         IN  IF s1.lookup_counter > LOOKUP_LIMIT
             THEN [s |-> fatal(s1, "Too many lookups"), ret |-> NULL]
             ELSE LET looknew == Len(s1.lookups) + 1
                      rec == [clone_lookup(s1.lookups[l], servers)
                                 EXCEPT !.parent = l]
                  IN  [s |-> [s1 EXCEPT
                                 !.requeued = @ + 1,
                                 !.lookups = Append(@, rec),
                                 !.lookup_list = <<looknew>> \o @,
                                 !.lookups[l].followups = Bump(@)],
                       ret |-> looknew]

(***************************************************************************)
(* bringup_timer: (re)create the lookup's one-shot timer.  The timer is    *)
(* "null", "armed" (it will post its idle event) or "idle" (it has posted  *)
(* it and stays silent until it is created or reset again).  interval is   *)
(* the time it was set to, 0 when there is no timer.                       *)
(***************************************************************************)
bringup_timer(s, l, q, default_timeout) ==
    IF ~Running(s) THEN s
    ELSE LET local_timeout ==
                 IF ISC_LIST_NEXT(s.lookups[l].q, q) # NULL THEN SERVER_TIMEOUT
                 ELSE IF timeout = 0 THEN default_timeout
                 ELSE timeout
         IN  [s EXCEPT !.lookups[l].timer = "armed",
                       !.lookups[l].interval = local_timeout]

\* the server of query q has an address family other than bind_address's
IncompatibleFamily(s, l, q) ==
    specified_source /\ s.lookups[l].queries[q].servname # "inet"

\* send_udp as it would be if it went on to the next query in every mode
RECURSIVE send_udp_fans_out(_, _, _)
send_udp_fans_out(s, l, q) ==
    IF ~Running(s) THEN s
    ELSE IF q = NULL THEN insist_failed(s, "send_udp(NULL)")
    ELSE
    LET s1 == [bringup_timer(s, l, q, UDP_TIMEOUT) EXCEPT
                                             !.lookups[l].current_query = q,
                                             !.lookups[l].sends = Append(@, q)]
        s2 == IF ~s1.lookups[l].queries[q].recv_made
              THEN [s1 EXCEPT !.lookups[l].queries[q].waiting_connect = FALSE,
                              !.lookups[l].queries[q].sock = TRUE,
                              !.sockcount = @ + 1,
                              !.lookups[l].queries[q].recv_made = TRUE,
                              !.lookups[l].queries[q].recv_ev = "posted",
                              !.lookups[l].queries[q].recv_cb = "recv_done",
                              !.recvcount = @ + 1]
              ELSE s1
        next == ISC_LIST_NEXT(s2.lookups[l].q, q)
    IN  IF ~s1.lookups[l].queries[q].recv_made /\ IncompatibleFamily(s1, l, q)
        THEN fatal([s1 EXCEPT !.lookups[l].queries[q].waiting_connect = FALSE,
                              !.lookups[l].queries[q].sock = TRUE,
                              !.sockcount = @ + 1],
                   "isc_socket_bind: address family mismatch")
        ELSE IF ~s2.lookups[l].queries[q].sock
        THEN insist_failed(s2, "INSIST(query->sock != NULL)")
        ELSE LET s3 == [s2 EXCEPT !.sendcount = @ + 1]
             IN  IF next # NULL
                 THEN send_udp_fans_out(s3, l, next)
                 ELSE s3

\* send_udp as it would be if it posted a receive with every resend
RECURSIVE send_udp_posts_again(_, _, _)
send_udp_posts_again(s, l, q) ==
    IF ~Running(s) THEN s
    ELSE IF q = NULL THEN insist_failed(s, "send_udp_posts_again(NULL)")
    ELSE
    LET s1 == [bringup_timer(s, l, q, UDP_TIMEOUT) EXCEPT
                                             !.lookups[l].current_query = q,
                                             !.lookups[l].sends = Append(@, q)]
        s2 == IF ~s1.lookups[l].queries[q].recv_made
              THEN [s1 EXCEPT !.lookups[l].queries[q].waiting_connect = FALSE,
                              !.lookups[l].queries[q].sock = TRUE,
                              !.sockcount = @ + 1,
                              !.lookups[l].queries[q].recv_made = TRUE,
                              !.lookups[l].queries[q].recv_ev = "posted",
                              !.lookups[l].queries[q].recv_cb = "recv_done",
                              !.recvcount = @ + 1]
              ELSE [s1 EXCEPT !.lookups[l].queries[q].recv_ev = "posted",
                              !.lookups[l].queries[q].recv_cb = "recv_done",
                              !.recvcount = @ + 1]
        next == ISC_LIST_NEXT(s2.lookups[l].q, q)
    IN  IF ~s1.lookups[l].queries[q].recv_made /\ IncompatibleFamily(s1, l, q)
        THEN fatal([s1 EXCEPT !.lookups[l].queries[q].waiting_connect = FALSE,
                              !.lookups[l].queries[q].sock = TRUE,
                              !.sockcount = @ + 1],
                   "isc_socket_bind: address family mismatch")
        ELSE IF ~s2.lookups[l].queries[q].sock
        THEN insist_failed(s2, "INSIST(query->sock != NULL)")
        ELSE LET s3 == [s2 EXCEPT !.sendcount = @ + 1]
             IN  IF s3.lookups[l].ns_search_only /\ next # NULL
                 THEN send_udp_posts_again(s3, l, next)
                 ELSE s3

RECURSIVE send_udp(_, _, _)
RECURSIVE send_tcp_connect(_, _, _)
RECURSIVE do_lookup(_, _)
RECURSIVE start_lookup(_)
RECURSIVE check_next_lookup(_, _)

(***************************************************************************)
(* send_udp: arm the timer, on the first call create the socket and post   *)
(* the receive, then post a send; in ns_search_only mode go on with the    *)
(* next query of the list.  There is no test of the address family: the    *)
(* socket has the family of the server, isc_socket_bind to a bind_address  *)
(* of another family fails and check_result ends the process.              *)
(***************************************************************************)
send_udp(s, l, q) ==
    IF ~Running(s) THEN s
    ELSE IF q = NULL THEN insist_failed(s, "send_udp(NULL)")
    ELSE
    LET s1 == [bringup_timer(s, l, q, UDP_TIMEOUT) EXCEPT
                                             !.lookups[l].current_query = q,
                                             !.lookups[l].sends = Append(@, q)]
        s2 == IF ~s1.lookups[l].queries[q].recv_made
              THEN [s1 EXCEPT !.lookups[l].queries[q].waiting_connect = FALSE,
                              !.lookups[l].queries[q].sock = TRUE,
                              !.sockcount = @ + 1,
                              !.lookups[l].queries[q].recv_made = TRUE,
                              !.lookups[l].queries[q].recv_ev = "posted",
                              !.lookups[l].queries[q].recv_cb = "recv_done",
                              !.recvcount = @ + 1]
              ELSE s1
        next == ISC_LIST_NEXT(s2.lookups[l].q, q)
    IN  IF ~s1.lookups[l].queries[q].recv_made /\ IncompatibleFamily(s1, l, q)
        THEN fatal([s1 EXCEPT !.lookups[l].queries[q].waiting_connect = FALSE,
                              !.lookups[l].queries[q].sock = TRUE,
                              !.sockcount = @ + 1],
                   "isc_socket_bind: address family mismatch")
        ELSE IF ~s2.lookups[l].queries[q].sock
        THEN insist_failed(s2, "INSIST(query->sock != NULL)")
        ELSE LET s3 == [s2 EXCEPT !.sendcount = @ + 1]
             IN  IF s3.lookups[l].ns_search_only /\ next # NULL
                 THEN send_udp(s3, l, next)
                 ELSE s3

(***************************************************************************)
(* send_tcp_connect: skip a server of the wrong address family, else       *)
(* create the socket, arm the timer and post the connect; in               *)
(* ns_search_only mode go on with the next query of the list.              *)
(***************************************************************************)
send_tcp_connect(s, l, q) ==
    IF ~Running(s) THEN s
    ELSE IF q = NULL THEN insist_failed(s, "send_tcp_connect(NULL)")
    ELSE
    LET s1 == [s EXCEPT !.lookups[l].queries[q].waiting_connect = TRUE,
                        !.lookups[l].current_query = q]
        next == ISC_LIST_NEXT(s1.lookups[l].q, q)
    IN  IF IncompatibleFamily(s1, l, q)
        THEN LET s2 == clear_query(
                         [s1 EXCEPT !.lookups[l].queries[q].waiting_connect = FALSE],
                         l, q)
             IN  IF next = NULL
                 THEN check_next_lookup([s2 EXCEPT !.lookups[l].errors = Bump(@)], l)
                 ELSE send_tcp_connect(s2, l, next)
        ELSE IF s1.lookups[l].queries[q].sock
        THEN insist_failed(s1, "INSIST(query->sock == NULL)")
        ELSE LET s2 == [s1 EXCEPT !.lookups[l].queries[q].sock = TRUE,
                                  !.sockcount = @ + 1]
                 s3 == [bringup_timer(s2, l, q, TCP_TIMEOUT) EXCEPT
                            !.lookups[l].queries[q].connect_ev = "posted"]
             IN  IF s3.lookups[l].ns_search_only /\ next # NULL
                 THEN send_tcp_connect(s3, l, next)
                 ELSE s3

(***************************************************************************)
(* setup_lookup: reset lookup_counter for a new search, take the default   *)
(* servers if the lookup has none, choose the origin, force SOA for the    *)
(* root probe and TCP for a transfer, and create one query per server.     *)
(***************************************************************************)
setup_lookup(s, l) ==
    IF ~Running(s) THEN s
    ELSE
    LET lk == s.lookups[l]
        servers == IF lk.my_server_list = <<>> THEN server_list
                   ELSE lk.my_server_list
        absolute == lk.manydots \/ lk.defname
        search == ~absolute /\ lk.origin = NULL /\ lk.new_search
                  /\ (usesearch \/ have_domain)
        origin == IF absolute THEN NULL
                  ELSE IF search
                  THEN IF fixeddomain THEN FIXED
                       ELSE IF search_list > 0 THEN 1 ELSE NULL
                  ELSE lk.origin
        rdtype == IF lk.trace_root THEN "soa" ELSE lk.rdtype
        xfr == rdtype \in {"axfr", "ixfr"}
    IN  [s EXCEPT
            !.lookup_counter = IF lk.new_search THEN 0 ELSE @,
            !.requeued = IF lk.new_search THEN 0 ELSE @,
            !.fixedsearch = IF search /\ fixeddomain THEN TRUE ELSE @,
            !.lookups[l].my_server_list = servers,
            !.lookups[l].origin = origin,
            !.lookups[l].rdtype = rdtype,
            !.lookups[l].doing_xfr = IF xfr THEN TRUE ELSE @,
            !.lookups[l].tcp_mode = IF xfr THEN TRUE ELSE @,
            !.lookups[l].pending = FALSE,
            !.lookups[l].msgcounter = 0,
            !.lookups[l].queries = [i \in 1..Len(servers) |-> NewQuery(servers[i])],
            !.lookups[l].q = [i \in 1..Len(servers) |-> i]]

\* do_lookup: mark the lookup pending and start its first query
do_lookup(s, l) ==
    IF ~Running(s) THEN s
    ELSE LET s1 == [s EXCEPT !.lookups[l].pending = TRUE]
         IN  IF s1.lookups[l].tcp_mode
             THEN send_tcp_connect(s1, l, ISC_LIST_HEAD(s1.lookups[l].q))
             ELSE send_udp(s1, l, ISC_LIST_HEAD(s1.lookups[l].q))

(***************************************************************************)
(* start_lookup: nothing once cancel_now is set; else make the head of the *)
(* queue the current lookup and start it, or see whether all is done.      *)
(***************************************************************************)
start_lookup(s) ==
    IF ~Running(locked(s)) THEN locked(s)
    ELSE IF s.cancel_now THEN s
    ELSE IF s.current_lookup # NULL
    THEN insist_failed(s, "INSIST(current_lookup == NULL)")
    ELSE IF s.lookup_list # <<>>
    THEN LET l == Head(s.lookup_list)
             s1 == [s EXCEPT !.current_lookup = l,
                             !.lookup_list = Tail(@),
                             !.lookups[l].phase = "current"]
         IN  do_lookup(setup_lookup(s1, l), l)
    ELSE check_if_done(s)

(***************************************************************************)
(* check_next_lookup: if the lookup has no query left, free it and start   *)
(* the next one.                                                           *)
(***************************************************************************)
\* check_next_lookup as it would be without the test for a remaining query
check_next_lookup_unguarded(s, l) ==
    IF ~Running(s) THEN s
    ELSE LET r == try_clear_lookup(s, l)
         IN  IF r.ret
             THEN start_lookup([r.s EXCEPT !.current_lookup = NULL])
             ELSE r.s

\* check_next_lookup as it would be if it left current_lookup set
check_next_lookup_keeps_current(s, l) ==
    IF ~Running(s) THEN s
    ELSE IF s.lookups[l].q # <<>> THEN s
    ELSE LET r == try_clear_lookup(s, l)
         IN  IF r.ret THEN start_lookup(r.s) ELSE r.s

check_next_lookup(s, l) ==
    IF ~Running(s) THEN s
    ELSE IF s.lookups[l].q # <<>> THEN s
    ELSE LET r == try_clear_lookup(s, l)
         IN  IF r.ret
             THEN start_lookup([r.s EXCEPT !.current_lookup = NULL])
             ELSE r.s

(***************************************************************************)
(* Responses.  A response is what dns_message_parse makes of the received  *)
(* bytes: parse is "ok" or "bad" (a hard parse error), tc the TC flag,     *)
(* rcode the response code, answer and authority the RRs of the two        *)
(* sections in wire order.  An RR is an A record, an NS record (v is the   *)
(* address family of its target) or an SOA record (v is its serial).       *)
(***************************************************************************)
RR(type, v) == [type |-> type, v |-> v]

IsNS(rr) == rr.type = "ns"

IsSOA(rr) == rr.type = "soa"

(***************************************************************************)
(* launch_next_query: for a lookup that was cancelled release the query;   *)
(* else post the read of the next length prefix and, before the first SOA, *)
(* the send of the question.                                               *)
(***************************************************************************)
launch_next_query(s, l, q, include_question) ==
    IF ~Running(s) THEN s
    ELSE IF ~s.lookups[l].pending
    THEN LET s1 == detach_sock(s, l, q)
             s2 == IF Running(s1)
                   THEN [s1 EXCEPT !.lookups[l].queries[q].waiting_connect = FALSE]
                   ELSE s1
         IN  check_next_lookup(clear_query(s2, l, q), l)
    ELSE LET s1 == [s EXCEPT !.lookups[l].queries[q].recv_ev = "posted",
                             !.lookups[l].queries[q].recv_cb = "tcp_length_done",
                             !.recvcount = @ + 1]
             s2 == IF ~s1.lookups[l].queries[q].first_soa_rcvd
                   THEN [s1 EXCEPT !.sendcount = @ + 1]
                   ELSE s1
         IN  [s2 EXCEPT !.lookups[l].queries[q].waiting_connect = FALSE]

(***************************************************************************)
(* check_for_more_data: the transfer consumer.  xfr_walk examines the      *)
(* answer RRs from position i on; x holds the query's transfer fields and  *)
(* atlimit.  It ends "fail" (return ISC_TRUE at once), "exit" (doexit) or  *)
(* "more" (the message is used up).  The "continue" taken for the first    *)
(* non-SOA RR after the first SOA returns to the loop condition without    *)
(* dns_rdataset_next, so that RR is examined a second time.  junk is the   *)
(* value read from first_repeat_rcvd while it is uninitialised.            *)
(***************************************************************************)
rr_limit == 5

RECURSIVE xfr_walk(_, _, _, _, _)
xfr_walk(x, lk, rrs, i, junk) ==
    IF i > Len(rrs)
    THEN [x |-> x, res |-> IF x.atlimit THEN "exit" ELSE "more"]
    ELSE
    LET rr == rrs[i]
        x1 == [x EXCEPT !.rr_count = @ + 1,
                        !.atlimit = @ \/ (x.rr_count + 1 >= rr_limit)]
        first_repeat == IF x1.first_repeat_rcvd = "junk" THEN junk ELSE TRUE
    IN  IF ~x1.first_soa_rcvd /\ ~IsSOA(rr)
        THEN [x |-> x1, res |-> "fail"]
        ELSE IF ~x1.second_rr_rcvd /\ ~IsSOA(rr)
        THEN xfr_walk([x1 EXCEPT !.second_rr_rcvd = TRUE,
                                 !.second_rr_serial = 0], lk, rrs, i, junk)
        ELSE IF ~IsSOA(rr)
        THEN xfr_walk(x1, lk, rrs, i + 1, junk)
        ELSE IF ~x1.first_soa_rcvd
        THEN LET x2 == [x1 EXCEPT !.first_soa_rcvd = TRUE,
                                  !.first_rr_serial = rr.v]
             IN  IF lk.ixfr_serial >= rr.v
                 THEN [x |-> x2, res |-> "exit"]
                 ELSE xfr_walk(x2, lk, rrs, i + 1, junk)
        ELSE IF lk.rdtype = "axfr"
        THEN [x |-> x1, res |-> "exit"]
        ELSE IF ~x1.second_rr_rcvd
        THEN IF rr.v = x1.first_rr_serial
             THEN [x |-> x1, res |-> "exit"]
             ELSE xfr_walk([x1 EXCEPT !.second_rr_rcvd = TRUE,
                                      !.second_rr_serial = rr.v],
                           lk, rrs, i + 1, junk)
        ELSE IF x1.second_rr_serial = 0
        THEN [x |-> x1, res |-> "exit"]
        ELSE IF x1.first_rr_serial = rr.v
        THEN IF ~first_repeat
             THEN xfr_walk([x1 EXCEPT !.first_repeat_rcvd = "set"],
                           lk, rrs, i + 1, junk)
             ELSE [x |-> x1, res |-> "exit"]
        ELSE xfr_walk(x1, lk, rrs, i + 1, junk)

\* the transfer fields of a query, with atlimit
XfrFields(qu) ==
    [ first_soa_rcvd    |-> qu.first_soa_rcvd,
      first_rr_serial   |-> qu.first_rr_serial,
      second_rr_rcvd    |-> qu.second_rr_rcvd,
      second_rr_serial  |-> qu.second_rr_serial,
      first_repeat_rcvd |-> qu.first_repeat_rcvd,
      rr_count          |-> qu.rr_count,
      atlimit           |-> FALSE ]

\* check_for_more_data as it would be if it asked for the next message
\* where it should stop
check_for_more_data_asks_more(s, l, q, msg, junk) ==
    IF ~Running(s) THEN [s |-> s, ret |-> TRUE]
    ELSE IF msg.answer = <<>>
    THEN [s |-> [s EXCEPT !.lookups[l].errors = Bump(@)], ret |-> TRUE]
    ELSE
    LET w == xfr_walk(XfrFields(s.lookups[l].queries[q]), s.lookups[l],
                      msg.answer, 1, junk)
        s1 == [s EXCEPT
                 !.lookups[l].queries[q].first_soa_rcvd = w.x.first_soa_rcvd,
                 !.lookups[l].queries[q].first_rr_serial = w.x.first_rr_serial,
                 !.lookups[l].queries[q].rr_count = w.x.rr_count]
    IN  IF w.res = "fail"
        THEN [s |-> [s1 EXCEPT !.lookups[l].errors = Bump(@)], ret |-> TRUE]
        ELSE [s |-> launch_next_query(s1, l, q, FALSE), ret |-> FALSE]

\* check_for_more_data as it would be without the test of atlimit after
\* the loop
check_for_more_data_no_limit(s, l, q, msg, junk) ==
    IF ~Running(s) THEN [s |-> s, ret |-> TRUE]
    ELSE IF msg.answer = <<>>
    THEN [s |-> [s EXCEPT !.lookups[l].errors = Bump(@)], ret |-> TRUE]
    ELSE
    LET w == xfr_walk(XfrFields(s.lookups[l].queries[q]), s.lookups[l],
                      msg.answer, 1, junk)
        s1 == [s EXCEPT
                 !.lookups[l].queries[q].first_soa_rcvd = w.x.first_soa_rcvd,
                 !.lookups[l].queries[q].first_rr_serial = w.x.first_rr_serial,
                 !.lookups[l].queries[q].second_rr_rcvd = w.x.second_rr_rcvd,
                 !.lookups[l].queries[q].second_rr_serial = w.x.second_rr_serial,
                 !.lookups[l].queries[q].first_repeat_rcvd = w.x.first_repeat_rcvd,
                 !.lookups[l].queries[q].rr_count = w.x.rr_count]
    IN  IF w.res = "fail"
        THEN [s |-> [s1 EXCEPT !.lookups[l].errors = Bump(@)], ret |-> TRUE]
        ELSE IF w.res = "exit" /\ ~w.x.atlimit
        THEN [s |-> s1, ret |-> TRUE]
        ELSE [s |-> launch_next_query(s1, l, q, FALSE), ret |-> FALSE]

check_for_more_data(s, l, q, msg, junk) ==
    IF ~Running(s) THEN [s |-> s, ret |-> TRUE]
    ELSE IF msg.answer = <<>>
    THEN [s |-> [s EXCEPT !.lookups[l].errors = Bump(@)], ret |-> TRUE]
    ELSE
    LET w == xfr_walk(XfrFields(s.lookups[l].queries[q]), s.lookups[l],
                      msg.answer, 1, junk)
        s1 == [s EXCEPT
                 !.lookups[l].queries[q].first_soa_rcvd = w.x.first_soa_rcvd,
                 !.lookups[l].queries[q].first_rr_serial = w.x.first_rr_serial,
                 !.lookups[l].queries[q].second_rr_rcvd = w.x.second_rr_rcvd,
                 !.lookups[l].queries[q].second_rr_serial = w.x.second_rr_serial,
                 !.lookups[l].queries[q].first_repeat_rcvd = w.x.first_repeat_rcvd,
                 !.lookups[l].queries[q].rr_count = w.x.rr_count]
    IN  IF w.res = "fail"
        THEN [s |-> [s1 EXCEPT !.lookups[l].errors = Bump(@)], ret |-> TRUE]
        ELSE IF w.res = "exit"
        THEN [s |-> [s1 EXCEPT !.exitcode = IF w.x.atlimit /\ @ < 7 THEN 7 ELSE @],
              ret |-> TRUE]
        ELSE [s |-> launch_next_query(s1, l, q, FALSE), ret |-> FALSE]

(***************************************************************************)
(* followup_lookup: queue one new lookup whose servers are the NS records  *)
(* of the section.  The first NS record cancels the current lookup and     *)
(* requeues a clone without servers; every NS record taken adds a server.  *)
(* ns_walk is the loop over the RRs; new is the lookup made so far.        *)
(***************************************************************************)
\* ns_walk as it would be if it put each server at the head of the list
RECURSIVE ns_walk_prepend(_, _, _, _, _, _)
ns_walk_prepend(s, l, rrs, i, section, new) ==
    IF i > Len(rrs) \/ ~Running(s) THEN [s |-> s, ret |-> new]
    ELSE
    LET lk == s.lookups[l]
        take == IsNS(rrs[i]) /\ (~lk.trace_root \/ lk.nsfound < MXSERV)
    IN  IF ~take THEN ns_walk_prepend(s, l, rrs, i + 1, section, new)
        ELSE
        LET s1 == [s EXCEPT !.lookups[l].nsfound = @ + 1]
            r == IF new # NULL THEN [s |-> s1, ret |-> new]
                 ELSE requeue_lookup(
                          cancel_lookup([s1 EXCEPT !.lookup_counter = @ + 1], l),
                          l, FALSE)
            n == r.ret
            s2 == IF new # NULL \/ ~Running(r.s) THEN r.s
                  ELSE [r.s EXCEPT
                          !.lookups[n].doing_xfr = FALSE,
                          !.lookups[n].defname = FALSE,
                          !.lookups[n].trace =
                              IF section = "answer" THEN FALSE
                              ELSE r.s.lookups[l].trace,
                          !.lookups[n].ns_search_only =
                              IF section = "answer" THEN FALSE
                              ELSE r.s.lookups[l].ns_search_only,
                          !.lookups[n].trace_root = FALSE]
        IN  IF ~Running(s2) THEN [s |-> s2, ret |-> n]
            ELSE ns_walk_prepend([s2 EXCEPT !.lookups[n].my_server_list =
                                        <<rrs[i].v>> \o @],
                         l, rrs, i + 1, section, n)

RECURSIVE ns_walk(_, _, _, _, _, _)
ns_walk(s, l, rrs, i, section, new) ==
    IF i > Len(rrs) \/ ~Running(s) THEN [s |-> s, ret |-> new]
    ELSE
    LET lk == s.lookups[l]
        take == IsNS(rrs[i]) /\ (~lk.trace_root \/ lk.nsfound < MXSERV)
    IN  IF ~take THEN ns_walk(s, l, rrs, i + 1, section, new)
        ELSE
        LET s1 == [s EXCEPT !.lookups[l].nsfound = @ + 1]
            r == IF new # NULL THEN [s |-> s1, ret |-> new]
                 ELSE requeue_lookup(
                          cancel_lookup([s1 EXCEPT !.lookup_counter = @ + 1], l),
                          l, FALSE)
            n == r.ret
            s2 == IF new # NULL \/ ~Running(r.s) THEN r.s
                  ELSE [r.s EXCEPT
                          !.lookups[n].doing_xfr = FALSE,
                          !.lookups[n].defname = FALSE,
                          !.lookups[n].trace =
                              IF section = "answer" THEN FALSE
                              ELSE r.s.lookups[l].trace,
                          !.lookups[n].ns_search_only =
                              IF section = "answer" THEN FALSE
                              ELSE r.s.lookups[l].ns_search_only,
                          !.lookups[n].trace_root = FALSE]
        IN  IF ~Running(s2) THEN [s |-> s2, ret |-> n]
            ELSE ns_walk([s2 EXCEPT !.lookups[n].my_server_list =
                                        Append(@, rrs[i].v)],
                         l, rrs, i + 1, section, n)

RECURSIVE followup_lookup(_, _, _, _, _)
followup_lookup(s0, l, q, msg, section) ==
    IF ~Running(s0) THEN s0
    ELSE
    LET s == Upward(s0, l)
        rrs == IF section = "answer" THEN msg.answer ELSE msg.authority
        again == section = "answer"
                 /\ (s.lookups[l].trace \/ s.lookups[l].ns_search_only)
    IN  IF rrs = <<>>
        THEN IF again THEN followup_lookup(s, l, q, msg, "authority") ELSE s
        ELSE LET r == ns_walk(s, l, rrs, 1, section, NULL)
             IN  IF r.ret = NULL /\ Running(r.s) /\ again
                 THEN followup_lookup(r.s, l, q, msg, "authority")
                 ELSE r.s

(***************************************************************************)
(* next_origin: requeue the lookup with the next entry of the search list; *)
(* ISC_FALSE when there is none to try.                                    *)
(***************************************************************************)
\* next_origin as it would be if it kept the origin
next_origin_same(s, l, q) ==
    IF ~Running(s) THEN [s |-> s, ret |-> FALSE]
    ELSE
    LET origin == s.lookups[l].origin
        fixedptr == IF s.fixedsearch THEN FIXED ELSE NULL
    IN  IF fixedptr = origin
        THEN [s |-> [s EXCEPT !.fixedsearch = FALSE,
                              !.lookups[l].origin = NULL],
              ret |-> FALSE]
        ELSE IF ~usesearch THEN [s |-> s, ret |-> FALSE]
        ELSE IF origin = NULL THEN [s |-> s, ret |-> FALSE]
        ELSE LET r == requeue_lookup(cancel_lookup(s, l), l, TRUE)
                 n == r.ret
             IN  IF ~Running(r.s) THEN [s |-> r.s, ret |-> TRUE]
                 ELSE [s |-> [r.s EXCEPT
                                !.lookups[n].defname = FALSE,
                                !.lookups[n].origin =
                                    origin],
                       ret |-> TRUE]

next_origin(s, l, q) ==
    IF ~Running(s) THEN [s |-> s, ret |-> FALSE]
    ELSE
    LET origin == s.lookups[l].origin
        fixedptr == IF s.fixedsearch THEN FIXED ELSE NULL
    IN  IF fixedptr = origin
        THEN [s |-> [s EXCEPT !.fixedsearch = FALSE,
                              !.lookups[l].origin = NULL],
              ret |-> FALSE]
        ELSE IF ~usesearch THEN [s |-> s, ret |-> FALSE]
        ELSE IF origin = NULL THEN [s |-> s, ret |-> FALSE]
        ELSE LET r == requeue_lookup(cancel_lookup(s, l), l, TRUE)
                 n == r.ret
             IN  IF ~Running(r.s) THEN [s |-> r.s, ret |-> TRUE]
                 ELSE [s |-> [r.s EXCEPT
                                !.lookups[n].defname = FALSE,
                                !.lookups[n].origin =
                                    IF origin >= 1 /\ origin < search_list
                                    THEN origin + 1 ELSE NULL],
                       ret |-> TRUE]

(***************************************************************************)
(* printmessage for a response of lookup l: counted in answers, and in     *)
(* reported, the number of times the response being handled was printed.   *)
(***************************************************************************)
printmessage(s, l) ==
    IF ~Running(s) THEN s
    ELSE [Upward(s, l) EXCEPT !.lookups[l].answers = Bump(@),
                              !.lookups[l].reported = Bump(@),
                              !.lookups[l].twice =
                                  @ \/ s.lookups[l].reported > 0]

\* an error line printed for lookup l
print_error(s, l) ==
    IF ~Running(s) THEN s ELSE [s EXCEPT !.lookups[l].errors = Bump(@)]

\* recvcount--; INSIST(recvcount >= 0)
recv_counted(s) ==
    LET s1 == [s EXCEPT !.recvcount = @ - 1]
    IN  IF ~Running(locked(s)) THEN locked(s)
        ELSE IF s1.recvcount < 0 THEN insist_failed(s1, "INSIST(recvcount >= 0)")
        ELSE s1

(***************************************************************************)
(* The time recv_done resets the timer to at the first response of a       *)
(* transfer (lines 2427-2437).                                             *)
(***************************************************************************)
xfr_timeout(tcp_mode) ==
    IF timeout = 0
    THEN IF tcp_mode THEN TCP_TIMEOUT ELSE UDP_TIMEOUT
    ELSE IF timeout < INT_MAX \div 4 THEN timeout * 4
    ELSE INT_MAX

(***************************************************************************)
(* recv_done, the part that handles a response that parsed: the search     *)
(* list, trace and printing decisions (lines 2417-2504) ...                *)
(***************************************************************************)
recv_report(s, l, q, msg) ==
    LET lk0 == s.lookups[l]
        s1 == IF lk0.xfr_q = NULL
              THEN IF timeout # INT_MAX /\ lk0.timer # "null" /\ lk0.doing_xfr
                   THEN [s EXCEPT !.lookups[l].xfr_q = q,
                                  !.lookups[l].timer = "armed",
                                  !.lookups[l].interval =
                                      xfr_timeout(lk0.tcp_mode)]
                   ELSE [s EXCEPT !.lookups[l].xfr_q = q]
              ELSE s
        lk == s1.lookups[l]
        retry == msg.rcode # "noerror" /\ lk.origin # NULL
    IN  IF lk.xfr_q = q
        THEN IF lk.trace \/ lk.ns_search_only
             THEN LET s2 == printmessage(s1, l)
                  IN  IF retry
                      THEN LET r == next_origin(s2, l, q)
                           IN  IF ~r.ret THEN printmessage(r.s, l) ELSE r.s
                      ELSE IF msg.answer = <<>> \/ lk.trace_root
                      THEN followup_lookup(s2, l, q, msg, "authority")
                      ELSE s2
             ELSE IF retry
             THEN LET r == next_origin(s1, l, q)
                  IN  IF ~r.ret THEN printmessage(r.s, l) ELSE r.s
             ELSE printmessage(s1, l)
        ELSE IF msg.answer # <<>> /\ lk.ns_search_only /\ ~lk.trace_root
        THEN printmessage(s1, l)
        ELSE s1

(***************************************************************************)
(* ... and what follows it (lines 2506-2552): a transfer goes to the       *)
(* consumer, any other lookup stops pending and its query is cleared.      *)
(***************************************************************************)
recv_finish(s, l, q, msg, junk) ==
    IF ~Running(s) THEN s
    ELSE IF s.lookups[l].doing_xfr
    THEN IF q # s.lookups[l].xfr_q
         THEN UNLOCK_LOOKUP(
                  [s EXCEPT !.lookups[l].queries[q].waiting_connect = FALSE])
         ELSE LET r == check_for_more_data(
                           Upward(s, l), l, q, msg, junk)
              IN  IF r.ret
                  THEN UNLOCK_LOOKUP(
                           check_next_lookup(
                               cancel_lookup(clear_query(r.s, l, q), l), l))
                  ELSE UNLOCK_LOOKUP(r.s)
    ELSE LET s1 == [s EXCEPT !.lookups[l].pending = FALSE]
             s2 == IF ~s1.lookups[l].ns_search_only \/ s1.lookups[l].trace_root
                   THEN cancel_lookup(s1, l)
                   ELSE s1
         IN  UNLOCK_LOOKUP(check_next_lookup(clear_query(s2, l, q), l))

(***************************************************************************)
(* recv_done with a TSIG key, before the response is parsed (lines         *)
(* 2309-2327): the message is marked tcp_continuation when msgcounter of   *)
(* the lookup is not 0, and msgcounter is incremented.  msgs counts the    *)
(* responses handed to the parser on the query (history); the query keeps  *)
(* the tcp_continuation flag of the last of them.                          *)
(***************************************************************************)
tsig_prepare(s, l, q) ==
    IF ~key THEN s
    ELSE [s EXCEPT !.lookups[l].queries[q].tcp_continuation =
                       s.lookups[l].msgcounter # 0,
                   !.lookups[l].queries[q].msgs = @ + 1,
                   !.lookups[l].msgcounter = @ + 1]

\* recv_done with a TSIG key, after the parse (lines 2397-2415): a failed
\* dns_tsig_verify clears validated and the response is processed
tsig_verify(s, msg) ==
    IF key /\ msg.sig = "bad" THEN [s EXCEPT !.validated = FALSE] ELSE s

(***************************************************************************)
(* recv_done: the handler of a completed receive.  result is "success",    *)
(* "canceled" or "error".                                                  *)
(***************************************************************************)
recv_done(s, l, q, result, msg, junk) ==
    LET s0 == recv_counted(
                  LOCK_LOOKUP([s EXCEPT !.lookups[l].queries[q].recv_ev = "none",
                                        !.lookups[l].reported = 0,
                                        !.lookups[l].stale =
                                            s.lookups[l].cancelled]))
        lk == s0.lookups[l]
        idle == [s0 EXCEPT !.lookups[l].queries[q].waiting_connect = FALSE]
        signed == tsig_prepare(s0, l, q)
    IN  IF ~Running(s0) THEN s0
        ELSE IF (~lk.pending /\ ~lk.ns_search_only) \/ s0.cancel_now
        THEN UNLOCK_LOOKUP(check_next_lookup(clear_query(idle, l, q), l))
        ELSE IF result = "success"
        THEN IF msg.parse = "bad"
             THEN UNLOCK_LOOKUP(
                      check_next_lookup(
                          cancel_lookup(
                              clear_query(
                                  print_error(
                                      [signed EXCEPT
                                          !.lookups[l].queries[q].waiting_connect
                                              = FALSE],
                                      l), l, q), l), l))
             ELSE IF msg.tc /\ ~lk.ignore /\ ~lk.tcp_mode
             THEN LET r == requeue_lookup(signed, l, TRUE)
                      s1 == IF Running(r.s)
                            THEN [r.s EXCEPT !.lookups[r.ret].tcp_mode = TRUE]
                            ELSE r.s
                  IN  UNLOCK_LOOKUP(
                          check_next_lookup(
                              cancel_lookup(clear_query(s1, l, q), l), l))
             ELSE
             LET skip == msg.rcode = "servfail" /\ lk.servfail_stops
                 next == ISC_LIST_NEXT(lk.q, q)
                 s1 == IF skip
                       THEN [signed EXCEPT !.lookups[l].current_query =
                                               IF @ = q THEN NULL ELSE @]
                       ELSE signed
                 s2 == IF skip /\ next # NULL
                       THEN IF lk.tcp_mode THEN send_tcp_connect(s1, l, next)
                            ELSE send_udp(s1, l, next)
                       ELSE s1
             IN  IF ~Running(s2) THEN s2
                 ELSE IF skip /\ (ISC_LIST_HEAD(s2.lookups[l].q) # q
                                  \/ ISC_LIST_NEXT(s2.lookups[l].q, q) # NULL)
                 THEN UNLOCK_LOOKUP(
                          check_next_lookup(
                              clear_query(print_error(s2, l), l, q), l))
                 ELSE recv_finish(recv_report(tsig_verify(s2, msg), l, q, msg),
                                  l, q, msg, junk)
        ELSE IF result = "canceled"
        THEN UNLOCK_LOOKUP(check_next_lookup(clear_query(idle, l, q), l))
        ELSE UNLOCK_LOOKUP(
                 check_next_lookup(
                     clear_query(detach_sock(print_error(s0, l), l, q), l, q), l))

(***************************************************************************)
(* send_done: the handler of a completed send.                             *)
(***************************************************************************)
send_done(s) ==
    LET s0 == LOCK_LOOKUP(s)
        s1 == [s0 EXCEPT !.sendcount = @ - 1]
    IN  IF ~Running(s0) THEN s0
        ELSE IF s1.sendcount < 0 THEN insist_failed(s1, "INSIST(sendcount >= 0)")
        ELSE UNLOCK_LOOKUP(check_if_done(s1))

(***************************************************************************)
(* connect_timeout: the handler of the lookup timer's idle event.          *)
(***************************************************************************)
\* connect_timeout as it would be if a UDP resend did not count as a try
connect_timeout_free_resend(s, l) ==
    LET s0 == LOCK_LOOKUP([s EXCEPT !.lookups[l].timer = "idle"])
        lk == s0.lookups[l]
        cq == lk.current_query
        next == IF cq # NULL THEN ISC_LIST_NEXT(lk.q, cq) ELSE NULL
    IN  UNLOCK_LOOKUP(
        IF next # NULL
        THEN IF ~lk.tcp_mode THEN send_udp(s0, l, next)
             ELSE send_tcp_connect(s0, l, next)
        ELSE IF lk.retries > 1
        THEN IF ~lk.tcp_mode
             THEN send_udp(s0, l, ISC_LIST_HEAD(lk.q))
             ELSE LET s1 == cancel_lookup(s0, l)
                      s2 == IF Running(s1)
                            THEN [s1 EXCEPT !.lookups[l].retries = @ - 1]
                            ELSE s1
                  IN  requeue_lookup(s2, l, TRUE).s
        ELSE cancel_lookup(print_error(s0, l), l))

\* connect_timeout as it would be if it gave up the query that timed out
\* when it went on to the next server
connect_timeout_drops_query(s, l) ==
    LET s0 == LOCK_LOOKUP([s EXCEPT !.lookups[l].timer = "idle"])
        lk == s0.lookups[l]
        cq == lk.current_query
        next == IF cq # NULL THEN ISC_LIST_NEXT(lk.q, cq) ELSE NULL
    IN  UNLOCK_LOOKUP(
        IF next # NULL
        THEN IF ~lk.tcp_mode THEN send_udp(clear_query(s0, l, cq), l, next)
             ELSE send_tcp_connect(clear_query(s0, l, cq), l, next)
        ELSE IF lk.retries > 1
        THEN IF ~lk.tcp_mode
             THEN send_udp([s0 EXCEPT !.lookups[l].retries = @ - 1], l,
                           ISC_LIST_HEAD(lk.q))
             ELSE LET s1 == cancel_lookup(s0, l)
                      s2 == IF Running(s1)
                            THEN [s1 EXCEPT !.lookups[l].retries = @ - 1]
                            ELSE s1
                  IN  requeue_lookup(s2, l, TRUE).s
        ELSE cancel_lookup(print_error(s0, l), l))

\* connect_timeout as it would be if it resent to the first server before
\* it went on to the next one
connect_timeout_resend_first(s, l) ==
    LET s0 == LOCK_LOOKUP([s EXCEPT !.lookups[l].timer = "idle"])
        lk == s0.lookups[l]
        cq == lk.current_query
        next == IF cq # NULL THEN ISC_LIST_NEXT(lk.q, cq) ELSE NULL
    IN  UNLOCK_LOOKUP(
        IF lk.retries > 1 /\ ~lk.tcp_mode
        THEN send_udp([s0 EXCEPT !.lookups[l].retries = @ - 1], l,
                      ISC_LIST_HEAD(lk.q))
        ELSE IF next # NULL
        THEN IF ~lk.tcp_mode THEN send_udp(s0, l, next)
             ELSE send_tcp_connect(s0, l, next)
        ELSE IF lk.retries > 1
        THEN LET s1 == cancel_lookup(s0, l)
                 s2 == IF Running(s1)
                       THEN [s1 EXCEPT !.lookups[l].retries = @ - 1]
                       ELSE s1
             IN  requeue_lookup(s2, l, TRUE).s
        ELSE cancel_lookup(print_error(s0, l), l))

connect_timeout(s, l) ==
    LET s0 == LOCK_LOOKUP([s EXCEPT !.lookups[l].timer = "idle"])
        lk == s0.lookups[l]
        cq == lk.current_query
        next == IF cq # NULL THEN ISC_LIST_NEXT(lk.q, cq) ELSE NULL
    IN  UNLOCK_LOOKUP(
        IF next # NULL
        THEN IF ~lk.tcp_mode THEN send_udp(s0, l, next)
             ELSE send_tcp_connect(s0, l, next)
        ELSE IF lk.retries > 1
        THEN IF ~lk.tcp_mode
             THEN send_udp([s0 EXCEPT !.lookups[l].retries = @ - 1], l,
                           ISC_LIST_HEAD(lk.q))
             ELSE LET s1 == cancel_lookup(s0, l)
                      s2 == IF Running(s1)
                            THEN [s1 EXCEPT !.lookups[l].retries = @ - 1]
                            ELSE s1
                  IN  requeue_lookup(s2, l, TRUE).s
        ELSE cancel_lookup(print_error(s0, l), l))

\* tcp_length_done as it would be if the path that posts the body read
\* returned without UNLOCK_LOOKUP
tcp_length_done_keeps_lock(s, l, q, result, toolong) ==
    LET s0 == recv_counted(
                  LOCK_LOOKUP([s EXCEPT !.lookups[l].queries[q].recv_ev = "none"]))
    IN  IF ~Running(s0) THEN s0
        ELSE IF result = "canceled"
        THEN UNLOCK_LOOKUP(check_next_lookup(clear_query(s0, l, q), l))
        ELSE IF result # "success"
        THEN UNLOCK_LOOKUP(
                 check_next_lookup(
                     clear_query(detach_sock(print_error(s0, l), l, q), l, q), l))
        ELSE IF toolong
        THEN fatal(s0, "Length was longer than I can handle")
        ELSE [s0 EXCEPT !.lookups[l].queries[q].recv_ev = "posted",
                        !.lookups[l].queries[q].recv_cb = "recv_done",
                        !.recvcount = @ + 1]

(***************************************************************************)
(* tcp_length_done: the handler of the 2-byte length read.  toolong says   *)
(* that the announced length exceeds COMMSIZE.                             *)
(***************************************************************************)
tcp_length_done(s, l, q, result, toolong) ==
    LET s0 == recv_counted(
                  LOCK_LOOKUP([s EXCEPT !.lookups[l].queries[q].recv_ev = "none"]))
    IN  IF ~Running(s0) THEN s0
        ELSE IF result = "canceled"
        THEN UNLOCK_LOOKUP(check_next_lookup(clear_query(s0, l, q), l))
        ELSE IF result # "success"
        THEN UNLOCK_LOOKUP(
                 check_next_lookup(
                     clear_query(detach_sock(print_error(s0, l), l, q), l, q), l))
        ELSE IF toolong
        THEN fatal(s0, "Length was longer than I can handle")
        ELSE UNLOCK_LOOKUP(
                 [s0 EXCEPT !.lookups[l].queries[q].recv_ev = "posted",
                            !.lookups[l].queries[q].recv_cb = "recv_done",
                            !.recvcount = @ + 1])

(***************************************************************************)
(* connect_done: the handler of a completed connect.                       *)
(***************************************************************************)
connect_done(s, l, q, result) ==
    LET s0 == LOCK_LOOKUP([s EXCEPT !.lookups[l].queries[q].connect_ev = "none"])
        s1 == [s0 EXCEPT !.lookups[l].queries[q].waiting_connect = FALSE]
        lk == s1.lookups[l]
        next == IF lk.current_query # NULL
                THEN ISC_LIST_NEXT(lk.q, lk.current_query) ELSE NULL
    IN  IF ~s0.lookups[l].queries[q].waiting_connect
        THEN insist_failed(s0, "INSIST(query->waiting_connect)")
        ELSE IF result = "canceled"
        THEN UNLOCK_LOOKUP(
                 check_next_lookup(clear_query(detach_sock(s1, l, q), l, q), l))
        ELSE IF result # "success"
        THEN LET s2 == detach_sock(print_error(s1, l), l, q)
                 s3 == IF Running(s2)
                       THEN [s2 EXCEPT !.exitcode = IF @ < 9 THEN 9 ELSE @]
                       ELSE s2
                 s4 == clear_query(s3, l, q)
             IN  IF next # NULL
                 THEN UNLOCK_LOOKUP(
                          send_tcp_connect(
                              bringup_timer(s4, l, next, TCP_TIMEOUT), l, next))
                 ELSE UNLOCK_LOOKUP(check_next_lookup(s4, l))
        ELSE UNLOCK_LOOKUP(launch_next_query(s1, l, q, TRUE))

(***************************************************************************)
(* cancel_all: set cancel_now, cancel the current lookup's sockets, clear  *)
(* its socketless queries and free the queued lookups.                     *)
(***************************************************************************)
RECURSIVE cancel_all_queries(_, _, _)
cancel_all_queries(s, l, qs) ==
    IF qs = <<>> \/ ~Running(s) THEN s
    ELSE LET q == Head(qs)
             s1 == IF s.lookups[l].queries[q].sock
                   THEN isc_socket_cancel(s, l, q)
                   ELSE clear_query(s, l, q)
         IN  cancel_all_queries(s1, l, Tail(qs))

RECURSIVE drain_lookup_list(_)
drain_lookup_list(s) ==
    IF s.lookup_list = <<>> \/ ~Running(s) THEN s
    ELSE LET l == Head(s.lookup_list)
         IN  drain_lookup_list(
                 try_clear_lookup([s EXCEPT !.lookup_list = Tail(@)], l).s)

\* cancel_all as it would be if it left the queue alone
cancel_all_keeps_queue(s) ==
    LET s1 == [LOCK_LOOKUP(s) EXCEPT !.cancel_now = TRUE]
        l == s1.current_lookup
    IN  UNLOCK_LOOKUP(
            IF l # NULL
            THEN cancel_all_queries(
                     [s1 EXCEPT !.lookups[l].timer = "null",
                                !.lookups[l].interval = 0,
                                !.lookups[l].cancelled = TRUE],
                     l, s1.lookups[l].q)
            ELSE s1)

cancel_all(s) ==
    LET s1 == [LOCK_LOOKUP(s) EXCEPT !.cancel_now = TRUE]
        l == s1.current_lookup
        s2 == IF l # NULL
              THEN cancel_all_queries(
                       [s1 EXCEPT !.lookups[l].timer = "null",
                                  !.lookups[l].interval = 0,
                                  !.lookups[l].cancelled = TRUE],
                       l, s1.lookups[l].q)
              ELSE s1
    IN  UNLOCK_LOOKUP(drain_lookup_list(s2))


(***************************************************************************)
(* The inputs.  A response offers the handler what the lookup reads: the   *)
(* RRs of the answer section matter to a transfer, for any other lookup    *)
(* only whether there are any; the authority section is read by            *)
(* followup_lookup alone, which runs for trace and ns_search_only lookups, *)
(* and what matters of it is whether it names servers; the address family  *)
(* of a server matters with a source address only.  Of a truncated         *)
(* response the handler reads the TC flag and then, if it goes on, treats  *)
(* it like any other: Truncated stands for these.                          *)
(***************************************************************************)
\* longest answer section of a response
MaxAnswer == 2

SeqsUpTo(S, n) == UNION {[1..k -> S] : k \in 0..n}

AnswerRRs == {RR("a", 0), RR("soa", 0), RR("soa", 1), RR("soa", 2)}

\* a message that carries more RRs than MaxAnswer
LongAnswer == [i \in 1..MaxAnswer + 1 |-> RR("a", 0)]

Answers(lk) ==
    IF lk.doing_xfr THEN SeqsUpTo(AnswerRRs, MaxAnswer) \cup {LongAnswer}
    ELSE {<<>>, <<RR("a", 0)>>} \cup
         IF lk.trace \/ lk.ns_search_only THEN {<<RR("ns", "inet")>>} ELSE {}

AuthorityRRs ==
    {RR("ns", f) : f \in Families}

\* the messages of a transfer carry no authority section
Authorities(lk) ==
    IF (lk.trace \/ lk.ns_search_only) /\ ~lk.doing_xfr
    THEN {<<>>} \cup [1..MaxServers -> AuthorityRRs]
    ELSE {<<>>}

Rcodes == {"noerror", "servfail", "nxdomain"}

BadPacket ==
    [parse |-> "bad", tc |-> FALSE, rcode |-> "noerror",
     answer |-> <<>>, authority |-> <<>>, sig |-> "ok"]

Truncated ==
    [parse |-> "ok", tc |-> TRUE, rcode |-> "noerror",
     answer |-> <<RR("a", 0)>>, authority |-> <<>>, sig |-> "ok"]

\* what dns_tsig_verify makes of a response: nothing is verified without
\* a key
Sigs == IF key THEN {"ok", "bad"} ELSE {"ok"}

Responses(lk) ==
    {BadPacket, Truncated} \cup
    [parse : {"ok"}, tc : {FALSE}, rcode : Rcodes,
     answer : Answers(lk), authority : Authorities(lk), sig : Sigs]

\* the values an uninitialised first_repeat_rcvd can be read as
Junk(lk, qu) ==
    IF lk.rdtype = "ixfr" /\ qu.first_repeat_rcvd = "junk" THEN BOOLEAN
    ELSE {FALSE}

(***************************************************************************)
(* The runs of the model: a configuration (setup_system and the command    *)
(* line) and the options of the lookups the driver seeds.  BaseSetup is a  *)
(* plain UDP query to MaxServers servers; every other setup departs from   *)
(* it in the options named.                                                *)
(***************************************************************************)
BaseSetup ==
    [ server_list      |-> [i \in 1..MaxServers |-> "inet"],
      search_list      |-> 0,
      usesearch        |-> FALSE,
      have_domain      |-> FALSE,
      fixeddomain      |-> FALSE,
      specified_source |-> FALSE,
      debugging        |-> FALSE,
      tries            |-> MaxTries,
      timeout          |-> 0,
      key              |-> FALSE,
      seeds            |-> 1,
      tcp_mode         |-> FALSE,
      ns_search_only   |-> FALSE,
      trace            |-> FALSE,
      trace_root       |-> FALSE,
      ignore           |-> FALSE,
      servfail_stops   |-> FALSE,
      rdtype           |-> "a",
      ixfr_serial      |-> 0,
      manydots         |-> FALSE,
      new_search       |-> TRUE ]

Setups ==
    { BaseSetup,
      [BaseSetup EXCEPT !.tries = 1],
      [BaseSetup EXCEPT !.tries = MaxTries + 1, !.ignore = TRUE,
                        !.server_list = [i \in 1..MaxServers + 1 |-> "inet"]],
      [BaseSetup EXCEPT !.tries = 1, !.server_list = <<"inet">>, !.seeds = NumSeeds],
      [BaseSetup EXCEPT !.tries = 1, !.server_list = <<"inet">>, !.seeds = NumSeeds,
                        !.new_search = FALSE],
      [BaseSetup EXCEPT !.tries = 1, !.server_list = <<"inet">>, !.debugging = TRUE],
      [BaseSetup EXCEPT !.tries = 1, !.server_list = <<"inet">>, !.ignore = TRUE],
      [BaseSetup EXCEPT !.tries = 1, !.servfail_stops = TRUE],
      [BaseSetup EXCEPT !.tcp_mode = TRUE],
      [BaseSetup EXCEPT !.tries = 1, !.tcp_mode = TRUE, !.servfail_stops = TRUE],
      [BaseSetup EXCEPT !.tries = 1, !.tcp_mode = TRUE, !.servfail_stops = TRUE,
                        !.key = TRUE],
      [BaseSetup EXCEPT !.tries = 1, !.rdtype = "axfr", !.key = TRUE,
                        !.server_list = <<"inet">>],
      [BaseSetup EXCEPT !.tries = 1, !.specified_source = TRUE,
                        !.server_list = <<"inet6", "inet">>],
      [BaseSetup EXCEPT !.tries = 1, !.specified_source = TRUE, !.tcp_mode = TRUE,
                        !.server_list = <<"inet6", "inet">>],
      [BaseSetup EXCEPT !.tries = 1, !.specified_source = TRUE, !.tcp_mode = TRUE,
                        !.server_list = <<"inet6">>, !.seeds = NumSeeds],
      [BaseSetup EXCEPT !.tries = 1, !.usesearch = TRUE, !.search_list = 2],
      [BaseSetup EXCEPT !.tries = 1, !.usesearch = TRUE, !.search_list = 2,
                        !.trace = TRUE, !.server_list = <<"inet">>],
      [BaseSetup EXCEPT !.tries = 1, !.have_domain = TRUE, !.fixeddomain = TRUE],
      [BaseSetup EXCEPT !.tries = 1, !.ns_search_only = TRUE],
      [BaseSetup EXCEPT !.ns_search_only = TRUE, !.ignore = TRUE],
      [BaseSetup EXCEPT !.tries = 1, !.ns_search_only = TRUE, !.trace_root = TRUE],
      [BaseSetup EXCEPT !.trace = TRUE, !.trace_root = TRUE],
      [BaseSetup EXCEPT !.tries = 1, !.trace = TRUE, !.have_domain = TRUE,
                        !.fixeddomain = TRUE],
      [BaseSetup EXCEPT !.tries = 1, !.timeout = UserTimeout],
      [BaseSetup EXCEPT !.tries = 1, !.timeout = UserTimeout, !.rdtype = "axfr",
                        !.server_list = <<"inet">>],
      [BaseSetup EXCEPT !.tries = 1, !.rdtype = "axfr", !.ns_search_only = TRUE],
      [BaseSetup EXCEPT !.tries = 1, !.rdtype = "ixfr", !.ixfr_serial = 1,
                        !.server_list = <<"inet">>] }

\* the lookup the driver seeds in setup c: make_empty_lookup with the options set
SeedLookup(c) ==
    [make_empty_lookup EXCEPT
        !.retries = c.tries,
        !.tcp_mode = c.tcp_mode,
        !.ns_search_only = c.ns_search_only,
        !.trace = c.trace,
        !.trace_root = c.trace_root,
        !.ignore = c.ignore,
        !.servfail_stops = c.servfail_stops,
        !.rdtype = c.rdtype,
        !.ixfr_serial = c.ixfr_serial,
        !.manydots = c.manydots,
        !.new_search = c.new_search]

(***************************************************************************)
(* The state when the event loop starts: the configuration is read, the    *)
(* driver has appended the setup's lookups, all made with the same         *)
(* options, and nothing is in flight.                                      *)
(***************************************************************************)
InitOf(c) ==
    /\ server_list = c.server_list
    /\ search_list = c.search_list
    /\ usesearch = c.usesearch
    /\ have_domain = c.have_domain
    /\ fixeddomain = c.fixeddomain
    /\ specified_source = c.specified_source
    /\ debugging = c.debugging
    /\ tries = c.tries
    /\ timeout = c.timeout
    /\ key = c.key
    /\ lookups = [i \in 1..c.seeds |-> SeedLookup(c)]
    /\ lookup_list = [i \in 1..c.seeds |-> i]
    /\ current_lookup = NULL
    /\ sockcount = 0
    /\ sendcount = 0
    /\ recvcount = 0
    /\ lookup_counter = 0
    /\ requeued = 0
    /\ cancel_now = FALSE
    /\ exitcode = 0
    /\ fixedsearch = FALSE
    /\ halted = ""
    /\ shutdowns = 0
    /\ started = FALSE
    /\ validated = TRUE
    /\ lookup_lock = FALSE

Init == \E c \in Setups : InitOf(c)

(***************************************************************************)
(* The actions: one per event handler.                                     *)
(***************************************************************************)
Live == halted = "" /\ shutdowns = 0

Lookups == 1..Len(lookups)

Queries(l) == 1..Len(lookups[l].queries)

\* the queries of lookup l with a connect or a receive still posted
Posted(l) ==
    {q \in Queries(l) : \/ lookups[l].queries[q].connect_ev = "posted"
                        \/ lookups[l].queries[q].recv_ev = "posted"}

\* the state a handler starts in
Run(raced) == [State EXCEPT !.raced = raced]

\* the results a delivered event can carry
Results(ev) == IF ev = "canceled" THEN {"canceled"} ELSE {"success", "error"}

\* an event for a query that clear_query has freed reads freed memory
Handle(l, q, s) ==
    /\ started' = started
    /\ IF lookups[l].queries[q].cleared > 0
       THEN Install(insist_failed(State, "use after free"))
       ELSE Install(s)

\* onrun_callback: the event loop starts
onrun_callback(s) == UNLOCK_LOOKUP(start_lookup(LOCK_LOOKUP(s)))

OnRun ==
    /\ Live /\ ~started
    /\ started' = TRUE
    /\ Install(onrun_callback(State))

ConnectDone(l, q) ==
    /\ Live /\ lookups[l].queries[q].connect_ev # "none"
    /\ \E result \in Results(lookups[l].queries[q].connect_ev) :
          Handle(l, q, connect_done(State, l, q, result))

TcpLengthDone(l, q) ==
    /\ Live /\ lookups[l].queries[q].recv_ev # "none"
    /\ lookups[l].queries[q].recv_cb = "tcp_length_done"
    /\ \E result \in Results(lookups[l].queries[q].recv_ev), toolong \in BOOLEAN :
          Handle(l, q, tcp_length_done(State, l, q, result, toolong))

RecvDone(l, q) ==
    /\ Live /\ lookups[l].queries[q].recv_ev # "none"
    /\ lookups[l].queries[q].recv_cb = "recv_done"
    /\ \E result \in Results(lookups[l].queries[q].recv_ev) :
       \E msg \in IF result = "success" THEN Responses(lookups[l])
                  ELSE {BadPacket} :
       \E junk \in Junk(lookups[l], lookups[l].queries[q]) :
       \E raced \in SUBSET (Posted(l) \ {q}) :
          Handle(l, q, recv_done(Run(raced), l, q, result, msg, junk))

SendDone ==
    /\ Live /\ sendcount > 0
    /\ started' = started
    /\ Install(send_done(State))

ConnectTimeout(l) ==
    /\ Live /\ lookups[l].timer = "armed"
    /\ started' = started
    /\ \E raced \in SUBSET Posted(l) :
          Install(connect_timeout(Run(raced), l))

\* the interrupt handler of the driver; it runs once
CancelAll ==
    /\ Live /\ started /\ ~cancel_now
    /\ started' = started
    /\ \E raced \in SUBSET (IF current_lookup = NULL THEN {}
                            ELSE Posted(current_lookup)) :
          Install(cancel_all(Run(raced)))

Next ==
    \/ OnRun
    \/ \E l \in Lookups : \E q \in Queries(l) : ConnectDone(l, q)
    \/ \E l \in Lookups : \E q \in Queries(l) : TcpLengthDone(l, q)
    \/ \E l \in Lookups : \E q \in Queries(l) : RecvDone(l, q)
    \/ SendDone
    \/ \E l \in Lookups : ConnectTimeout(l)
    \/ CancelAll

Spec == Init /\ [][Next]_vars

(***************************************************************************)
(* Properties.                                                             *)
(***************************************************************************)
Idle == lookup_list = <<>> /\ current_lookup = NULL

\* C1: dighost_shutdown is called only with the lookup queue empty,
\* current_lookup NULL and sockcount, sendcount and recvcount zero; whenever
\* the queue is empty, current_lookup is NULL and sendcount is 0, sockcount
\* and recvcount are 0 too, so neither INSIST of check_if_done fails.
C1_ShutdownOnlyWhenIdle ==
    /\ shutdowns > 0 =>
          Idle /\ sockcount = 0 /\ sendcount = 0 /\ recvcount = 0
    /\ Idle /\ sendcount = 0 => sockcount = 0 /\ recvcount = 0
    /\ halted \notin {"INSIST(sockcount == 0)", "INSIST(recvcount == 0)"}

\* the run is over, a connect had failed on the way, and the three counters
\* are back at zero
C1_Witness ==
    shutdowns > 0 /\ exitcode = 9 /\ Idle
    /\ sockcount = 0 /\ sendcount = 0 /\ recvcount = 0

\* C2: sockcount, sendcount and recvcount are never negative, and no
\* INSIST on them fails.
C2_CountersNonNegative ==
    /\ sockcount >= 0 /\ sendcount >= 0 /\ recvcount >= 0
    /\ halted \notin {"INSIST(sockcount >= 0)", "INSIST(sendcount >= 0)",
                      "INSIST(recvcount >= 0)"}

\* after cancel_all, one of the two sockets of the current lookup has been
\* released by the handler of its cancel event and the other is still open
C2_Witness ==
    /\ cancel_now /\ current_lookup # NULL /\ halted = ""
    /\ sockcount = 1 /\ recvcount = 1
    /\ lookups[current_lookup].cancelled
    /\ \E q \in Queries(current_lookup) :
          lookups[current_lookup].queries[q].cleared = 1

\* C3: no query is cleared twice, and when a lookup is freed no query is
\* linked on it and each query it had was cleared exactly once.
C3_QueriesClearedOnce ==
    \A l \in Lookups :
        /\ \A q \in Queries(l) : lookups[l].queries[q].cleared <= 1
        /\ lookups[l].phase = "freed" => lookups[l].clean

\* the one lookup of a run with two servers was started, both its queries
\* were cleared once, and it was freed
C3_Witness ==
    /\ Len(lookups) = 1 /\ Len(server_list) = 2 /\ ~cancel_now
    /\ lookups[1].phase = "freed" /\ lookups[1].clean

\* no handler can run any more: onrun_callback has run, no connect, send
\* or receive is outstanding and no timer is armed
Quiescent ==
    /\ started /\ sendcount = 0
    /\ \A l \in Lookups :
          /\ lookups[l].timer # "armed"
          /\ \A q \in Queries(l) : /\ lookups[l].queries[q].connect_ev = "none"
                                   /\ lookups[l].queries[q].recv_ev = "none"

\* C4: every lookup that was started is eventually freed and
\* dighost_shutdown is eventually called.  Events are the only thing that
\* runs the engine, so when none is left (and the process has not exited
\* and the user has not interrupted) the current lookup must have been
\* freed and dighost_shutdown called.
C4_EveryLookupReclaimed ==
    Quiescent /\ halted = "" /\ ~cancel_now =>
        current_lookup = NULL /\ shutdowns > 0

\* C5: lookups are processed one at a time: the INSIST of start_lookup
\* holds, a lookup on lookup_list has no queries, and a query with a socket
\* or with a connect or receive outstanding belongs to current_lookup.
C5_SerialLookups ==
    /\ halted # "INSIST(current_lookup == NULL)"
    /\ \A i \in 1..Len(lookup_list) :
          /\ lookups[lookup_list[i]].q = <<>>
          /\ lookups[lookup_list[i]].queries = <<>>
          /\ lookups[lookup_list[i]].phase = "queued"
    /\ \A l \in Lookups : \A q \in Queries(l) :
          LET qu == lookups[l].queries[q]
          IN  qu.sock \/ qu.connect_ev # "none" \/ qu.recv_ev # "none"
                  => l = current_lookup

\* the current lookup has two queries with sockets while another lookup
\* waits in the queue
C5_Witness ==
    /\ current_lookup # NULL /\ lookup_list # <<>>
    /\ Cardinality({q \in Queries(current_lookup) :
                        lookups[current_lookup].queries[q].sock}) = 2

\* C6: a response that arrives for a lookup that was already cancelled
\* (by cancel_lookup or by cancel_all) is not printed, not handed to
\* followup_lookup and not handed to check_for_more_data.
C6_CancelledDeliversNothing ==
    \A l \in Lookups : ~lookups[l].late

\* C7: a lookup that was started ends with exactly one outcome (its answer
\* printed, an error printed, or cancelled with nothing printed), and no
\* response is printed twice.
C7_ExactlyOneOutcome ==
    \A l \in Lookups :
        /\ lookups[l].phase = "freed" => lookups[l].single
        /\ ~lookups[l].twice
\* C8: between two set-ups of a new_search lookup at most LOOKUP_LIMIT
\* lookups are made by requeue_lookup; the request that takes lookup_counter
\* above LOOKUP_LIMIT ends in fatal("Too many lookups") with no lookup
\* queued or started by it; and lookup_counter goes back to 0 only in a step
\* that sets up a lookup flagged new_search.
C8_Bounded ==
    /\ requeued <= LOOKUP_LIMIT
    /\ requeued <= lookup_counter
    /\ lookup_counter > LOOKUP_LIMIT => halted = "Too many lookups"

C8_FatalQueuesNothing ==
    halted = "" /\ halted' = "Too many lookups" =>
        /\ lookup_counter' > LOOKUP_LIMIT
        /\ Len(lookups') = Len(lookups)
        /\ lookup_list' = lookup_list
        /\ current_lookup' = current_lookup

C8_ResetOnlyByNewSearch ==
    lookup_counter > 0 /\ lookup_counter' = 0 =>
        \E l \in Lookups : /\ lookups[l].phase = "queued"
                           /\ lookups[l].new_search
                           /\ lookups'[l].phase # "queued"

C8_LookupLimit ==
    [](C8_Bounded) /\ [][C8_FatalQueuesNothing /\ C8_ResetOnlyByNewSearch]_vars

C8_Witness ==
    /\ halted = "Too many lookups"
    /\ requeued = LOOKUP_LIMIT
    /\ lookup_counter > LOOKUP_LIMIT

\* C9: a lookup made by requeue_lookup is put at the head of lookup_list, and
\* when the lookup it was made from is reclaimed it is the lookup that is
\* started, before every lookup that was waiting.
C9_Prepended ==
    \A n \in (Len(lookups) + 1)..Len(lookups') :
        \/ lookups'[n].phase # "queued"
        \/ lookup_list' # <<>> /\ Head(lookup_list') = n

C9_StartedNext ==
    \A n \in 1..Len(lookups') :
        LET p == lookups'[n].parent
        IN  /\ p # NULL
            /\ lookups[p].phase = "current"
            /\ lookups'[p].phase = "freed"
            /\ ~cancel_now'
            /\ halted' = ""
            => lookups'[n].phase # "queued"

C9_FollowupFirst == [][C9_Prepended /\ C9_StartedNext]_vars

\* C10: a truncated UDP response of a lookup with ignore and tcp_mode off is
\* not printed; a clone in TCP mode goes to the head of lookup_list and the
\* lookup is cancelled; lookups made from a TCP lookup stay in TCP mode, and
\* no lookup is retried in TCP mode twice.
C10_Escalated(p, n) ==
    /\ lookups'[n].phase = "queued" \/ n > Len(lookups)
    /\ lookups'[n].parent = p
    /\ lookups'[n].tcp_mode
    /\ ~lookups[p].tcp_mode

C10_Retry(p, n) ==
    /\ ~lookups[p].ignore
    /\ lookups'[p].phase = "freed" \/ lookups'[p].cancelled
    /\ lookups'[p].phase = "freed" \/ lookups'[p].answers = lookups[p].answers
    /\ \/ lookups'[n].phase # "queued"
       \/ lookup_list' # <<>> /\ Head(lookup_list') = n

C10_Step ==
    \A n \in (Len(lookups) + 1)..Len(lookups') :
        LET p == lookups'[n].parent
        IN  /\ lookups[p].tcp_mode => lookups'[n].tcp_mode
            /\ C10_Escalated(p, n) =>
                  /\ C10_Retry(p, n)
                  /\ \A m \in Lookups : ~(m # n /\ lookups[m].phase = "queued"
                                              /\ lookups[m].parent = p
                                              /\ lookups[m].tcp_mode)

C10_TruncatedRetriesOnce == [][C10_Step]_vars

\* a receive of query q of lookup l that recv_done will read as a response
Readable(l, q) ==
    /\ Live /\ ~cancel_now
    /\ lookups[l].phase = "current"
    /\ lookups[l].pending \/ lookups[l].ns_search_only
    /\ lookups[l].queries[q].cleared = 0
    /\ lookups[l].queries[q].recv_cb = "recv_done"
    /\ lookups[l].queries[q].recv_ev \in {"posted", "queued"}

\* the well-formed, untruncated responses with the given rcode
WithRcode(lk, rcode) ==
    {m \in Responses(lk) : m.parse = "ok" /\ ~m.tc /\ m.rcode = rcode}

\* the state recv_done leaves when it reads msg on query q of lookup l
Read(l, q, msg) == recv_done(Run({}), l, q, "success", msg, FALSE)

\* C11: a SERVFAIL response of a lookup with servfail_stops off is not
\* printed and the next server is tried; with servfail_stops on it is
\* printed as a response with any other failing rcode is.
C11_Servfail ==
    \A l \in Lookups : \A q \in Queries(l) :
        Readable(l, q) /\ ~lookups[l].doing_xfr =>
            \A msg \in WithRcode(lookups[l], "servfail") :
                LET s == Read(l, q, msg)
                    other == Read(l, q, [msg EXCEPT !.rcode = "nxdomain"])
                    next == ISC_LIST_NEXT(lookups[l].q, q)
                IN  IF lookups[l].servfail_stops
                    THEN s.lookups[l].reported = other.lookups[l].reported
                    ELSE /\ s.lookups[l].reported = 0
                         /\ next # NULL => s.lookups[l].queries[next].sock

\* the timer of lookup l is about to expire with no server left to try
LastTimeout(l) ==
    /\ Live
    /\ lookups[l].timer = "armed"
    /\ lookups[l].current_query # NULL
    /\ ISC_LIST_NEXT(lookups[l].q, lookups[l].current_query) = NULL
    /\ lookups[l].retries <= 1

\* C12: when the timer of a lookup expires, its current query has no
\* successor and retries <= 1, "connection timed out" is printed, the lookup
\* is cancelled and exitcode is raised to 9 if it was lower.
C12_TimedOut ==
    \A l \in Lookups :
        LastTimeout(l) =>
            LET s == connect_timeout(Run({}), l)
            IN  /\ s.lookups[l].errors = Bump(lookups[l].errors)
                /\ s.lookups[l].cancelled
                /\ s.exitcode >= 9

\* a lookup seeded by the driver, sent by UDP to one server at a time, none
\* of whose servers has answered: no query of it has been cleared
Silent(l) ==
    /\ lookups[l].phase = "current"
    /\ lookups[l].parent = NULL
    /\ ~lookups[l].tcp_mode /\ ~lookups[l].ns_search_only
    /\ Len(lookups[l].q) = Len(lookups[l].queries)
    /\ ~cancel_now

\* the lookup has reported that no servers could be reached
GaveUp(l) == lookups[l].cancelled /\ lookups[l].errors > 0

\* the number of sends to query q of lookup l
SendsTo(l, q) ==
    Cardinality({i \in 1..Len(lookups[l].sends) : lookups[l].sends[i] = q})

\* C13 (as the source has it): while no server answers, a UDP lookup sends
\* to its servers in turn, first to last, and starts again at the first
\* while retries allow; it gives up after retries rounds.  No lookup sends
\* to its first server more than retries times, and a lookup made from a
\* TCP lookup is not retried again.
C13_Rounds ==
    \A l \in Lookups :
        LET n == Len(lookups[l].queries)
            sends == lookups[l].sends
        IN  /\ SendsTo(l, 1) <= tries
            /\ Silent(l) =>
                  /\ \A i \in 1..Len(sends) : sends[i] = ((i - 1) % n) + 1
                  /\ Len(sends) <= n * tries
                  /\ GaveUp(l) => Len(sends) = n * tries

C13_TcpRetry ==
    \A n \in (Len(lookups) + 1)..Len(lookups') :
        lookups[lookups'[n].parent].tcp_mode => lookups'[n].retries < 1

Transfers(lk) == {m \in WithRcode(lk, "noerror") : m.answer # <<>>}

\* what the transfer consumer makes of msg on query q of lookup l
Walk(l, q, msg, junk) ==
    xfr_walk(XfrFields(lookups[l].queries[q]), lookups[l], msg.answer, 1, junk)

\* the positions of the SOA records of a message
SOAs(msg) == {i \in 1..Len(msg.answer) : IsSOA(msg.answer[i])}

\* C14: in an AXFR the consumer is not done at the first SOA of the stream
\* and is done exactly when it processes the second one, whatever the
\* serials are (a stream within rr_limit that starts with an SOA).
C14_AxfrEndsAtSecondSoa ==
    \A l \in Lookups : \A q \in Queries(l) :
        Readable(l, q) /\ lookups[l].rdtype = "axfr" =>
            \A msg \in Transfers(lookups[l]) :
                LET qu == lookups[l].queries[q]
                    w == Walk(l, q, msg, FALSE)
                    second == IF qu.first_soa_rcvd THEN SOAs(msg) # {}
                              ELSE Cardinality(SOAs(msg)) >= 2
                IN  (qu.first_soa_rcvd \/ 1 \in SOAs(msg)) /\ ~w.x.atlimit
                    => (w.res = "exit" <=> second)

\* query q of a transfer lookup l is about to read the first message of
\* the stream
FirstMessage(l, q) ==
    /\ Readable(l, q)
    /\ lookups[l].doing_xfr
    /\ lookups[l].xfr_q \in {NULL, q}
    /\ ~lookups[l].queries[q].first_soa_rcvd

\* the first RR of msg is an SOA whose serial the lookup already has
NothingNew(l, msg) ==
    /\ 1 \in SOAs(msg)
    /\ msg.answer[1].v <= lookups[l].ixfr_serial

\* C15: when the first RR of a transfer is an SOA with a serial not above
\* the lookup's ixfr_serial the consumer is done at once: it examines no
\* further RR, no further message is requested and the lookup is cancelled.
C15_NothingToTransfer ==
    \A l \in Lookups : \A q \in Queries(l) :
        FirstMessage(l, q) =>
            \A msg \in {m \in Transfers(lookups[l]) : NothingNew(l, m)} :
                LET w == Walk(l, q, msg, FALSE)
                    s == Read(l, q, msg)
                IN  /\ w.res = "exit"
                    /\ w.x.rr_count = lookups[l].queries[q].rr_count + 1
                    /\ s.recvcount = recvcount - 1
                    /\ IF s.lookups[l].phase = "freed"
                       THEN s.lookups[l].queries = <<>>
                       ELSE /\ s.lookups[l].cancelled
                            /\ s.lookups[l].queries[q].recv_ev = "none"
                            /\ s.lookups[l].queries[q].cleared = 1

C15_Witness ==
    \E l \in Lookups : \E q \in Queries(l) :
        /\ FirstMessage(l, q)
        /\ lookups[l].rdtype = "ixfr" /\ lookups[l].ixfr_serial = 1
        /\ \E msg \in Transfers(lookups[l]) :
              /\ msg.answer = <<RR("soa", 1), RR("a", 0)>>
              /\ Read(l, q, msg).lookups[l].phase = "freed"
              /\ Read(l, q, msg).exitcode = 0

\* what the transfer consumer makes of two messages in a row: the second
\* one is read if the first one did not end the transfer
Walk2(l, q, m1, m2, junk) ==
    LET w == Walk(l, q, m1, junk)
    IN  IF w.res # "more" THEN w
        ELSE xfr_walk([w.x EXCEPT !.atlimit = FALSE], lookups[l],
                      m2.answer, 1, junk)

\* the later positions of stream that hold an SOA with the serial of the
\* first SOA
Repeats(stream) ==
    {i \in 3..Len(stream) : IsSOA(stream[i]) /\ stream[i].v = stream[1].v}

\* stream is, as far as it goes, an incremental transfer: an SOA newer
\* than the lookup's ixfr_serial, then an SOA of another serial
Incremental(l, stream) ==
    /\ Len(stream) >= 2 /\ Len(stream) < rr_limit
    /\ IsSOA(stream[1]) /\ stream[1].v > lookups[l].ixfr_serial
    /\ IsSOA(stream[2]) /\ stream[2].v # stream[1].v

\* C16: an IXFR whose second RR is an SOA of another serial (0 included)
\* is complete exactly at the second later SOA that has the serial of the
\* first one; the first such SOA, SOAs of other serials and other RRs do
\* not end it.
C16_IxfrEndsAtSecondRepeat ==
    \A l \in Lookups : \A q \in Queries(l) :
        FirstMessage(l, q) /\ lookups[l].rdtype = "ixfr" =>
            \A m1, m2 \in Transfers(lookups[l]) :
            \A junk \in Junk(lookups[l], lookups[l].queries[q]) :
                LET stream == m1.answer \o m2.answer
                    w == Walk2(l, q, m1, m2, junk)
                    examined == w.x.rr_count - lookups[l].queries[q].rr_count
                    ends == {e \in Repeats(stream) :
                                Cardinality({i \in Repeats(stream) : i < e}) = 1}
                IN  Incremental(l, stream) =>
                        IF ends = {} THEN w.res = "more"
                        ELSE w.res = "exit" /\ examined \in ends

\* query q of a transfer lookup l is about to hand a message to the consumer
Consuming(l, q) ==
    /\ Readable(l, q)
    /\ lookups[l].doing_xfr
    /\ lookups[l].xfr_q \in {NULL, q}

\* the RRs examined: rr_count, less the second examination of a second RR
\* that was not an SOA
Examined(x) ==
    x.rr_count - IF x.second_rr_rcvd /\ x.second_rr_serial = 0 THEN 1 ELSE 0

\* C17 (as the source has it): the consumer tests the limit when it has
\* gone through the whole message, so it stops at the end of the message
\* in which rr_count reaches rr_limit (sooner only at an SOA that ends the
\* transfer), having examined every RR of that message, and exitcode is
\* then raised to 7; no message is read once rr_count has reached rr_limit.
C17_StopsAfterTheMessage ==
    \A l \in Lookups : \A q \in Queries(l) :
        Consuming(l, q) =>
            /\ lookups[l].queries[q].rr_count < rr_limit
            /\ \A msg \in Transfers(lookups[l]) :
               \A junk \in Junk(lookups[l], lookups[l].queries[q]) :
                  LET w == Walk(l, q, msg, junk)
                      r == check_for_more_data(State, l, q, msg, junk)
                  IN  /\ w.x.atlimit <=> w.x.rr_count >= rr_limit
                      /\ w.x.rr_count <=
                             lookups[l].queries[q].rr_count + Len(msg.answer) + 1
                      /\ w.x.atlimit /\ w.res # "fail" =>
                             /\ SOAs(msg) = {} =>
                                   w.x.rr_count >= lookups[l].queries[q].rr_count
                                                      + Len(msg.answer)
                             /\ r.ret /\ r.s.exitcode >= 7
                             /\ r.s.recvcount = recvcount

C17_Witness ==
    \E l \in Lookups : \E q \in Queries(l) :
        /\ Consuming(l, q)
        /\ lookups[l].queries[q].rr_count = rr_limit - 1
        /\ \E msg \in Transfers(lookups[l]) :
              /\ msg.answer = LongAnswer
              /\ Walk(l, q, msg, FALSE).x.rr_count = rr_limit + MaxAnswer
              /\ Read(l, q, msg).exitcode = 7
              /\ Read(l, q, msg).lookups[l].phase = "freed"

\* C17 as the specification words it: the consumer stops after at most
\* rr_limit + 1 RRs, however many RRs one message carries.
C17_StopsAtTheLimit ==
    \A l \in Lookups : \A q \in Queries(l) :
        Consuming(l, q) =>
            \A msg \in Transfers(lookups[l]) :
            \A junk \in Junk(lookups[l], lookups[l].queries[q]) :
                Examined(Walk(l, q, msg, junk).x) <= rr_limit + 1

\* query q is about to read a response while another query of the lookup
\* is its xfr_q
Sibling(l, q) ==
    /\ Readable(l, q)
    /\ lookups[l].xfr_q \notin {NULL, q}

\* C18: once xfr_q of a lookup is set it does not change while the lookup
\* lives, and in a transfer a response on a query that is not xfr_q is not
\* printed and not given to check_for_more_data.
C18_XfrQ ==
    \A l \in Lookups :
        lookups[l].phase # "freed" /\ lookups[l].xfr_q # NULL =>
            \A q \in Queries(l) :
                Readable(l, q) =>
                    \A msg \in Responses(lookups[l]) :
                    \A junk \in Junk(lookups[l], lookups[l].queries[q]) :
                        LET t == recv_done(Run({}), l, q, "success", msg, junk)
                        IN  t.lookups[l].phase # "freed" =>
                               t.lookups[l].xfr_q = lookups[l].xfr_q

C18_Discarded ==
    \A l \in Lookups : \A q \in Queries(l) :
        Sibling(l, q) /\ lookups[l].doing_xfr =>
            \A msg \in Transfers(lookups[l]) :
            \A junk \in BOOLEAN :
                LET t == recv_done(Run({}), l, q, "success", msg, junk)
                IN  /\ t.lookups[l].reported = 0
                    /\ t.lookups[l].queries[lookups[l].xfr_q] =
                          lookups[l].queries[lookups[l].xfr_q]
                    /\ t.lookups[l].queries[q].rr_count =
                          lookups[l].queries[q].rr_count

C18_SiblingDiscarded == C18_XfrQ /\ C18_Discarded

\* the targets of the NS records of a section, in the order of the message
NSTargets(rrs) ==
    LET ns == SelectSeq(rrs, IsNS)
    IN  [i \in 1..Len(ns) |-> ns[i].v]

\* query q of a lookup in trace or ns_search_only mode that was not
\* cancelled is about to read a response on the query that is (or becomes)
\* xfr_q
Tracing(l, q) ==
    /\ Readable(l, q)
    /\ lookups[l].trace \/ lookups[l].ns_search_only
    /\ lookups[l].pending /\ ~lookups[l].cancelled
    /\ ~lookups[l].doing_xfr
    /\ lookups[l].xfr_q \in {NULL, q}

\* C19: in trace or ns_search_only mode a response with NS records in its
\* ANSWER section queues one follow-up lookup whose servers are those NS
\* targets and whose trace and ns_search_only flags are both cleared.
C19_AnswerEndsChain ==
    \A l \in Lookups : \A q \in Queries(l) :
        Tracing(l, q) =>
            \A msg \in WithRcode(lookups[l], "noerror") :
                NSTargets(msg.answer) # <<>> =>
                    LET t == Read(l, q, msg)
                        n == Len(lookups) + 1
                    IN  Running(t) =>
                           /\ Len(t.lookups) = n
                           /\ t.lookups[n].my_server_list = NSTargets(msg.answer)
                           /\ ~t.lookups[n].trace
                           /\ ~t.lookups[n].ns_search_only
\* the first n elements of a sequence
Take(seq, n) == SubSeq(seq, 1, IF Len(seq) < n THEN Len(seq) ELSE n)

\* the response makes recv_done call followup_lookup, and the section it
\* passes holds NS records
Delegation(l, msg) ==
    /\ msg \in WithRcode(lookups[l], "noerror")
    /\ msg.answer = <<>> \/ lookups[l].trace_root
    /\ NSTargets(msg.authority) # <<>>

Searching(l, q) ==
    /\ Readable(l, q)
    /\ lookups[l].pending /\ ~lookups[l].cancelled
    /\ ~lookups[l].doing_xfr
    /\ lookups[l].xfr_q \in {NULL, q}
    /\ usesearch
    /\ lookups[l].origin \in 1..search_list

\* ISC_LIST_NEXT(origin, link) in search_list
NextOrigin(origin) == IF origin < search_list THEN origin + 1 ELSE NULL

\* the responses with an rcode other than 0
Failures(lk) == WithRcode(lk, "servfail") \cup WithRcode(lk, "nxdomain")

\* C21 (as the source has it): a response with a non-zero rcode for a
\* lookup whose origin is a search-list entry (usesearch on) is not printed,
\* except in trace or ns_search_only mode, where it is printed once; the
\* lookup is cancelled and one clone is queued with the same servers and
\* the next origin.  A
\* lookup without origin is not requeued by such a response, and a response
\* with rcode 0 queues no lookup with an origin: so a name is tried once for
\* each entry of the search list and once more without origin.
C21_Step(l, q, msg, printed) ==
    LET t == Read(l, q, msg)
        n == Len(lookups) + 1
    IN  Running(t) =>
           /\ Len(t.lookups) = n
           /\ t.lookups[n].parent = l
           /\ t.lookups[n].my_server_list = lookups[l].my_server_list
           /\ t.lookups[n].origin = NextOrigin(lookups[l].origin)
           /\ t.lookups[l].cancelled \/ t.lookups[l].phase = "freed"
           /\ t.lookups[l].reported = printed

C21_Advance ==
    \A l \in Lookups : \A q \in Queries(l) :
        Searching(l, q) =>
            \A msg \in Failures(lookups[l]) :
                C21_Step(l, q, msg,
                         IF lookups[l].trace \/ lookups[l].ns_search_only
                         THEN 1 ELSE 0)

C21_Ends ==
    \A l \in Lookups : \A q \in Queries(l) :
        /\ Readable(l, q)
        /\ lookups[l].pending /\ ~lookups[l].cancelled
        /\ usesearch
        => /\ lookups[l].origin = NULL /\ ~lookups[l].trace
              /\ ~lookups[l].ns_search_only =>
                 \A msg \in Failures(lookups[l]) :
                     Len(Read(l, q, msg).lookups) = Len(lookups)
           /\ \A msg \in WithRcode(lookups[l], "noerror") :
                 LET t == Read(l, q, msg)
                 IN  \A n \in 1..Len(t.lookups) :
                        n > Len(lookups) => t.lookups[n].origin = NULL

C21_SearchList == C21_Advance /\ C21_Ends

\* C21 as the specification words it: the response is not printed, in
\* whatever mode.
C21_Unprinted ==
    \A l \in Lookups : \A q \in Queries(l) :
        Searching(l, q) =>
            \A msg \in Failures(lookups[l]) : C21_Step(l, q, msg, 0)

C21_SearchListUnprinted == C21_Unprinted /\ C21_Ends

C21_Witness ==
    \E l \in Lookups : \E q \in Queries(l) :
        /\ Searching(l, q)
        /\ lookups[l].origin = 1
        /\ lookups[l].parent = NULL
        /\ \E msg \in Failures(lookups[l]) :
              /\ Running(Read(l, q, msg))
              /\ Read(l, q, msg).lookups[Len(lookups) + 1].origin = 2

\* cancel_all can run
Interruptible == Live /\ started /\ ~cancel_now

\* the state cancel_all leaves: cancel_now is set, the queue is empty and
\* the lookups that were on it are freed, and of the current lookup every
\* query with a socket has nothing posted any more (isc_socket_cancel was
\* called on it) and every query without one is cleared
C22_Cancelled ==
    Interruptible =>
        \A raced \in SUBSET (IF current_lookup = NULL THEN {}
                             ELSE Posted(current_lookup)) :
            LET t == cancel_all(Run(raced))
                l == current_lookup
            IN  /\ t.cancel_now
                /\ t.lookup_list = <<>>
                /\ \A i \in 1..Len(lookup_list) :
                      t.lookups[lookup_list[i]].phase = "freed"
                /\ l # NULL =>
                      /\ t.current_lookup = l
                      /\ t.lookups[l].timer = "null"
                      /\ \A i \in 1..Len(lookups[l].q) :
                            LET q == lookups[l].q[i]
                            IN  IF lookups[l].queries[q].sock
                                THEN /\ t.lookups[l].queries[q].connect_ev # "posted"
                                     /\ t.lookups[l].queries[q].recv_ev # "posted"
                                ELSE /\ t.lookups[l].queries[q].cleared =
                                           Bump(lookups[l].queries[q].cleared)
                                     /\ \A j \in 1..Len(t.lookups[l].q) :
                                           t.lookups[l].q[j] # q

\* once cancel_now is set the queue stays empty
C22_QueueStaysEmpty == cancel_now => lookup_list = <<>>

\* once cancel_now is set no lookup becomes current and none is allocated
C22_NoneStarted ==
    cancel_now =>
        /\ current_lookup' \in {current_lookup, NULL}
        /\ Len(lookups') = Len(lookups)
        /\ \A l \in Lookups :
              lookups'[l].phase = "current" => lookups[l].phase = "current"

\* C22: after cancel_all cancel_now is set, the queue is empty and its
\* lookups are reclaimed, cancellation was requested on every socket of
\* the current lookup and its socketless queries are cleared, and no
\* lookup is started afterwards.
C22_CancelAll ==
    /\ [](C22_Cancelled /\ C22_QueueStaysEmpty)
    /\ [][C22_NoneStarted]_vars

C22_Witness ==
    /\ cancel_now /\ halted = ""
    /\ current_lookup # NULL
    /\ Len(lookups) > 1
    /\ \A l \in Lookups : l # current_lookup => lookups[l].phase = "freed"
    /\ \E q \in Queries(current_lookup) :
          lookups[current_lookup].queries[q].recv_ev = "canceled"

\* C23: in UDP mode with a source address, a server of another address
\* family is skipped: the process does not stop on it and no socket is
\* created for its query.
C23_FamilySkipped ==
    /\ halted # "isc_socket_bind: address family mismatch"
    /\ specified_source =>
          \A l \in Lookups : \A q \in Queries(l) :
              /\ ~lookups[l].tcp_mode
              /\ lookups[l].queries[q].servname # "inet"
              => ~lookups[l].queries[q].sock

\* C24: with a user timeout greater than 0 every interval bringup_timer
\* arms equals that timeout, whether or not the query has a successor.
C24_UserTimeoutOverrides ==
    timeout > 0 =>
        \A l \in Lookups :
            lookups[l].timer = "armed" /\ lookups[l].xfr_q = NULL
            => lookups[l].interval = timeout

\* the timeout in force for a lookup before its transfer starts: the user
\* timeout when it is set, the default of the transport otherwise
ActiveTimeout(lk) ==
    IF timeout > 0 THEN timeout
    ELSE IF lk.tcp_mode THEN TCP_TIMEOUT ELSE UDP_TIMEOUT

\* C25: the first response of a zone transfer resets the timer of the
\* lookup to four times the timeout that was active, capped at INT_MAX.
C25_XfrTimeoutTimesFour ==
    \A l \in Lookups : \A q \in Queries(l) :
        /\ Consuming(l, q)
        /\ lookups[l].xfr_q = NULL
        /\ lookups[l].timer = "armed"
        => \A msg \in Transfers(lookups[l]) :
              Walk(l, q, msg, FALSE).res = "more" =>
                  LET lk == Read(l, q, msg).lookups[l]
                      active == ActiveTimeout(lookups[l])
                  IN  /\ lk.xfr_q = q
                      /\ lk.timer = "armed"
                      /\ lk.interval = IF active < INT_MAX \div 4
                                       THEN 4 * active ELSE INT_MAX

\* a response is parsed with tcp_continuation set exactly when it is not
\* the first one received on its query
C26_Continuation ==
    \A l \in Lookups : \A q \in Queries(l) :
        Readable(l, q) =>
            LET qu == tsig_prepare(State, l, q).lookups[l].queries[q]
            IN  /\ qu.msgs = lookups[l].queries[q].msgs + 1
                /\ qu.tcp_continuation <=> lookups[l].queries[q].msgs # 0

\* a response whose signature does not verify is processed as the same
\* response with a good signature is, but for validated
C26_Verified ==
    \A l \in Lookups : \A q \in Queries(l) :
        Readable(l, q) =>
            \A msg \in Responses(lookups[l]) :
                /\ msg.sig = "bad"
                /\ ~(msg.rcode = "servfail" /\ lookups[l].servfail_stops)
                => Read(l, q, msg) =
                       [Read(l, q, [msg EXCEPT !.sig = "ok"])
                           EXCEPT !.validated = FALSE]

\* C26: with a TSIG key, a response is parsed with tcp_continuation set if
\* and only if it is not the first message received on its query's stream,
\* and a verification failure only clears validated: the response is still
\* processed.
C26_Tsig == key => C26_Continuation /\ C26_Verified

\* the timer of lookup l can expire while its current query has a successor
NextTimeout(l) ==
    /\ Live
    /\ lookups[l].timer = "armed"
    /\ lookups[l].current_query # NULL
    /\ ISC_LIST_NEXT(lookups[l].q, lookups[l].current_query) # NULL

\* query q of lookup lk has been started on the transport of the lookup
Started(lk, q) ==
    /\ lk.current_query = q
    /\ lk.queries[q].sock
    /\ IF lk.tcp_mode
       THEN lk.queries[q].waiting_connect /\ lk.queries[q].connect_ev = "posted"
       ELSE lk.queries[q].recv_made /\ lk.sends # <<>>
            /\ lk.sends[Len(lk.sends)] = q

\* what connect_timeout leaves when the current query of l has a successor:
\* the successor started, retries as it was, the earlier query as it was
\* and still linked, and a response that is waiting on it still reported
C27_Step(l) ==
    LET s == connect_timeout(Run({}), l)
        cq == lookups[l].current_query
        next == ISC_LIST_NEXT(lookups[l].q, cq)
    IN  /\ Running(s)
        /\ Started(s.lookups[l], next)
        /\ lookups[l].tcp_mode \/ s.sendcount = sendcount + 1
        /\ s.lookups[l].retries = lookups[l].retries
        /\ s.lookups[l].q = lookups[l].q
        /\ s.lookups[l].queries[cq] = lookups[l].queries[cq]
        /\ Readable(l, cq) /\ ~lookups[l].doing_xfr =>
              \A msg \in WithRcode(lookups[l], "noerror") :
                  recv_done(s, l, cq, "success", msg, FALSE).lookups[l].reported
                      = Read(l, cq, msg).lookups[l].reported

\* C27: when the timer of a lookup expires and its current query has a
\* successor in the query list, the successor is started by send_udp or
\* send_tcp_connect, retries is unchanged, and the earlier query stays on
\* the list with its socket, so that a late response from it is accepted.
C27_NextServer ==
    \A l \in Lookups : NextTimeout(l) => C27_Step(l)

C27_Witness ==
    \E l \in Lookups :
        /\ NextTimeout(l) /\ C27_Step(l)
        /\ Readable(l, lookups[l].current_query)
        /\ lookups[l].queries[lookups[l].current_query].sock
        /\ \E msg \in WithRcode(lookups[l], "noerror") :
              Read(l, lookups[l].current_query, msg).lookups[l].reported > 0

\* the timer of lookup l can expire while its current query is the last of
\* the list and the lookup has tries left
RetryTimeout(l) ==
    /\ Live
    /\ lookups[l].timer = "armed"
    /\ lookups[l].current_query # NULL
    /\ ISC_LIST_NEXT(lookups[l].q, lookups[l].current_query) = NULL
    /\ lookups[l].retries > 1

\* sequence a is sequence b with something appended
Extends(a, b) ==
    Len(a) > Len(b) /\ SubSeq(a, 1, Len(b)) = b

\* what connect_timeout leaves of a UDP lookup that has tries left: one try
\* less, the packet sent again to the first query of the list, then (in
\* ns_search_only mode) to the queries after it, every query as it was and
\* linked as it was, no socket created and no receive posted
C28_Step(l) ==
    LET s == connect_timeout(Run({}), l)
        head == ISC_LIST_HEAD(lookups[l].q)
    IN  /\ Running(s)
        /\ s.lookups[l].retries = lookups[l].retries - 1
        /\ Extends(s.lookups[l].sends, lookups[l].sends)
        /\ s.lookups[l].sends[Len(lookups[l].sends) + 1] = head
        /\ s.sendcount = sendcount + Len(s.lookups[l].sends)
                                   - Len(lookups[l].sends)
        /\ lookups[l].ns_search_only
           \/ Len(s.lookups[l].sends) = Len(lookups[l].sends) + 1
        /\ lookups[l].queries[head].sock
        /\ lookups[l].queries[head].recv_made
        /\ s.lookups[l].queries = lookups[l].queries
        /\ s.lookups[l].q = lookups[l].q
        /\ s.sockcount = sockcount
        /\ s.recvcount = recvcount

\* C28: when the timer expires in UDP mode, the current query has no
\* successor and retries > 1, retries is decremented by exactly one and the
\* packet is sent again to the first query of the list on the socket that
\* query has; no socket is created and no second receive is posted.
C28_UdpResend ==
    \A l \in Lookups :
        RetryTimeout(l) /\ ~lookups[l].tcp_mode => C28_Step(l)

C28_Witness ==
    \E l \in Lookups :
        /\ RetryTimeout(l) /\ ~lookups[l].tcp_mode /\ C28_Step(l)
        /\ Len(lookups[l].q) > 1
        /\ lookups[l].queries[ISC_LIST_HEAD(lookups[l].q)].recv_ev = "posted"

\* C29: when the timer expires in TCP mode, the current query has no
\* successor and retries > 1, the lookup is cancelled and a clone in TCP
\* mode whose retries is that of the lookup less one is put at the head of
\* the queue.
C29_TcpRetry ==
    \A l \in Lookups :
        RetryTimeout(l) /\ lookups[l].tcp_mode =>
            LET s == connect_timeout(Run({}), l)
                n == ISC_LIST_HEAD(s.lookup_list)
            IN  Running(s) =>
                    /\ s.lookups[l].cancelled
                    /\ Len(s.lookups) = Len(lookups) + 1
                    /\ n = Len(s.lookups)
                    /\ s.lookups[n].tcp_mode
                    /\ s.lookups[n].retries = lookups[l].retries - 1

\* C30: try_clear_lookup frees the lookup and returns true only when the
\* query list of the lookup is empty; with a query still linked it returns
\* false and leaves everything as it was, with or without debug output.
C30_TryClear ==
    \A l \in Lookups :
        Live /\ lookups[l].phase # "freed" =>
            LET r == try_clear_lookup(State, l)
            IN  IF lookups[l].q = <<>>
                THEN r.ret /\ r.s.lookups[l].phase = "freed"
                ELSE ~r.ret /\ r.s = State

\* C31: during a transfer rr_count is the number of answer RRs examined so
\* far: a message that is walked to its end adds the number of its RRs,
\* the first RR after the first SOA included.
C31_CountsEachRROnce ==
    \A l \in Lookups : \A q \in Queries(l) :
        Consuming(l, q) =>
            \A msg \in Transfers(lookups[l]) :
            \A junk \in Junk(lookups[l], lookups[l].queries[q]) :
                LET w == Walk(l, q, msg, junk)
                IN  w.res = "more" =>
                        w.x.rr_count = lookups[l].queries[q].rr_count
                                           + Len(msg.answer)

\* the queries of a lookup that hold a socket
WithSocket(lk) ==
    {q \in 1..Len(lk.queries) : lk.queries[q].sock}

\* lookup l becomes the current lookup in this step
Starts(l) ==
    /\ lookups'[l].phase = "current"
    /\ l > Len(lookups) \/ lookups[l].phase # "current"

\* the queries of lookup l, current before and after, that get their socket
\* in this step
NewlyStarted(l) ==
    {q \in WithSocket(lookups'[l]) : ~lookups[l].queries[q].sock}

\* at the start of a lookup every linked query is started in
\* ns_search_only mode, and one query otherwise
C32_AtStart ==
    \A l \in 1..Len(lookups') :
        Starts(l) =>
            LET lk == lookups'[l]
            IN  IF lk.ns_search_only
                THEN /\ lk.q # <<>>
                     /\ \A i \in 1..Len(lk.q) : lk.queries[lk.q[i]].sock
                     /\ lk.tcp_mode \/ lk.sends = lk.q
                ELSE Cardinality(WithSocket(lk)) = 1

\* later a query is started only outside ns_search_only mode, one at a
\* time, by the timer, by a connect that failed or by a SERVFAIL that
\* moves on to the next server
C32_Later ==
    \A l \in Lookups :
        /\ lookups[l].phase = "current"
        /\ lookups'[l].phase = "current"
        /\ NewlyStarted(l) # {}
        => /\ ~lookups[l].ns_search_only
           /\ Cardinality(NewlyStarted(l)) = 1
           /\ \/ ConnectTimeout(l)
              \/ \E q \in Queries(l) :
                    /\ lookups[l].queries[q].connect_ev \in {"posted", "queued"}
                    /\ Handle(l, q, connect_done(State, l, q, "error"))
              \/ \E q \in Queries(l) :
                    /\ Readable(l, q) /\ lookups[l].servfail_stops
                    /\ \E msg \in WithRcode(lookups[l], "servfail") :
                          Handle(l, q, Read(l, q, msg))

\* a UDP retry of an ns_search_only lookup sends to every linked query again
C32_Retry ==
    \A l \in Lookups :
        RetryTimeout(l) /\ ~lookups[l].tcp_mode /\ lookups[l].ns_search_only =>
            connect_timeout(Run({}), l).lookups[l].sends
                = lookups[l].sends \o lookups[l].q

\* C32: in ns_search_only mode every query of the lookup is started when
\* the lookup starts, and again on each UDP retry; in every other mode one
\* query is started at the start of the lookup, and a further one only by
\* a timer expiry, a SERVFAIL skip, an address-family skip or a failed
\* connect.
C32_Fanout ==
    /\ []C32_Retry
    /\ [][C32_AtStart /\ C32_Later]_vars

\* an ns_search_only lookup all of whose queries, more than one, were sent
\* to at its start and again at a retry
C32_Witness ==
    \E l \in Lookups :
        /\ lookups[l].phase = "current" /\ lookups[l].ns_search_only
        /\ ~lookups[l].tcp_mode
        /\ Len(lookups[l].q) > 1
        /\ lookups[l].sends = lookups[l].q \o lookups[l].q

(***************************************************************************)
(* C33: every handler and cancel_all takes lookup_lock before it reads or  *)
(* writes current_lookup, the counters or the lookup queue, and gives it   *)
(* back on every return that is not fatal: no handler ever touches them    *)
(* without the lock, none asks for the lock while it is held, none gives   *)
(* back a lock it does not hold, and whenever a handler has returned and   *)
(* the program goes on the lock is free.                                   *)
(***************************************************************************)
LockFaults == {"data race", "isc_mutex_lock: held", "isc_mutex_unlock"}

NextAfterFailure(l) ==
    IF lookups[l].current_query # NULL
    THEN ISC_LIST_NEXT(lookups[l].q, lookups[l].current_query)
    ELSE NULL

C34_NextNotCleared ==
    \A l \in Lookups : \A q \in Queries(l) :
        (/\ Live
         /\ lookups[l].queries[q].cleared = 0
         /\ lookups[l].queries[q].connect_ev \in {"posted", "queued"})
            => NextAfterFailure(l) # q

C34_SockNull ==
    /\ halted # "INSIST(query->sock == NULL)"
    /\ C34_NextNotCleared

(***************************************************************************)
(* C35: in a transfer with several servers a query that is not xfr_q, and  *)
(* whose response was therefore discarded, is cleared once the transfer    *)
(* has ended and the lookup was cancelled: when no event is left, such a   *)
(* query holds no socket and the lookup of the transfer has been freed.    *)
(***************************************************************************)
\* in state s the transfer of lookup l has ended: xfr_q was cleared and
\* the lookup cancelled
TransferEnded(s, l) ==
    /\ Running(s)
    /\ s.lookups[l].cancelled
    /\ s.lookups[l].queries[s.lookups[l].xfr_q].cleared > 0

\* query q of lookup l is cleared in state s, or an event is on its way
\* whose handler clears it
BeingCleared(s, l, q) ==
    \/ s.lookups[l].queries[q].cleared > 0
    \/ s.lookups[l].queries[q].connect_ev # "none"
    \/ s.lookups[l].queries[q].recv_ev # "none"

C35_SiblingReclaimed ==
    \A l \in Lookups : \A q \in Queries(l) :
        (/\ Sibling(l, q) /\ lookups[l].doing_xfr
         /\ Readable(l, lookups[l].xfr_q))
            => \A msg \in Transfers(lookups[l]) :
               \A last \in Transfers(lookups[l]) :
                   LET xq == lookups[l].xfr_q
                       discarded == Read(l, q, msg)
                       ended == recv_done(discarded, l, xq, "success", last, FALSE)
                   IN  TransferEnded(ended, l) => BeingCleared(ended, l, q)

\* a sibling whose response has not been read when the transfer ends has
\* its receive cancelled with the lookup
C35_UnansweredSibling ==
    \A l \in Lookups : \A q \in Queries(l) :
        (/\ Sibling(l, q) /\ lookups[l].doing_xfr
         /\ Readable(l, lookups[l].xfr_q))
            => \A last \in Transfers(lookups[l]) :
                   LET ended == Read(l, lookups[l].xfr_q, last)
                   IN  TransferEnded(ended, l) => BeingCleared(ended, l, q)

(***************************************************************************)
(* C36: a lookup that recv_done queues in response to a reply (NS chase,   *)
(* search-list advance, TC escalation) starts with the retries the         *)
(* originating lookup had when the reply arrived.                          *)
(***************************************************************************)
\* the lookups that state s has and the present state has not
Followups(s) == (Len(lookups) + 1)..Len(s.lookups)

C36_FollowupRetries ==
    \A l \in Lookups : \A q \in Queries(l) :
        Readable(l, q) =>
            \A msg \in Responses(lookups[l]) :
                LET s == Read(l, q, msg)
                IN  Running(s) =>
                        \A n \in Followups(s) :
                            s.lookups[n].retries = lookups[l].retries

\* C36 for the TC escalation alone
C36_Escalation ==
    \A l \in Lookups : \A q \in Queries(l) :
        Readable(l, q) /\ ~lookups[l].ignore /\ ~lookups[l].tcp_mode =>
            LET s == Read(l, q, Truncated)
            IN  Running(s) =>
                    /\ Followups(s) # {}
                    /\ \A n \in Followups(s) :
                           s.lookups[n].retries = lookups[l].retries

(***************************************************************************)
(* C37: after cancel_all no handler posts a socket operation: a connect or *)
(* a length read that had completed with success before the interrupt      *)
(* starts neither a send nor a receive, so sockcount, sendcount and        *)
(* recvcount never go up once cancel_now is set, and when the events are   *)
(* delivered the current lookup has been reclaimed.                        *)
(***************************************************************************)
C37_NothingPosted ==
    cancel_now =>
        /\ sockcount' <= sockcount
        /\ sendcount' <= sendcount
        /\ recvcount' <= recvcount

C37_Reclaimed ==
    Live /\ cancel_now /\ Quiescent => current_lookup = NULL

C37_CancelAllIsFinal == /\ []C37_Reclaimed /\ [][C37_NothingPosted]_vars

(***************************************************************************)
(* C38: current_query of a lookup is NULL or a query that is still linked  *)
(* on the query list of that lookup and was not freed: clear_query resets  *)
(* it when it clears the current query, so the successor that              *)
(* connect_timeout and connect_done take of it is never taken of a freed   *)
(* query.                                                                  *)
(***************************************************************************)
C38_CurrentQueryLinked ==
    \A l \in Lookups :
        lookups[l].phase # "freed" =>
            \/ lookups[l].current_query = NULL
            \/ /\ Position(lookups[l].q, lookups[l].current_query, 1) # 0
               /\ lookups[l].queries[lookups[l].current_query].cleared = 0

\* the current query of a lookup was cleared while another query of the
\* lookup is still linked and the timer still armed
C38_Witness ==
    \E l \in Lookups :
        /\ Live /\ lookups[l].phase = "current"
        /\ lookups[l].current_query = NULL
        /\ lookups[l].q # <<>>
        /\ lookups[l].timer = "armed"
        /\ \E q \in Queries(l) : lookups[l].queries[q].cleared > 0

(***************************************************************************)
(* C39: a query has at most one receive outstanding: every receive that    *)
(* recvcount counts is the one receive of a different query, and recvcount *)
(* never exceeds the number of queries that hold a socket.                 *)
(***************************************************************************)
AllQueries == UNION {{<<l, q>> : q \in Queries(l)} : l \in Lookups}

\* the queries with a receive outstanding
Receiving ==
    {lq \in AllQueries : lookups[lq[1]].queries[lq[2]].recv_ev # "none"}

\* the queries that hold a socket
Sockets == {lq \in AllQueries : lookups[lq[1]].queries[lq[2]].sock}

C39_Counted ==
    halted = "" =>
        /\ recvcount = Cardinality(Receiving)
        /\ recvcount <= Cardinality(Sockets)

\* a receive of a TCP query has completed and its handler is about to run
Alternating(l, q) ==
    /\ Live /\ lookups[l].tcp_mode
    /\ lookups[l].queries[q].cleared = 0
    /\ lookups[l].queries[q].recv_ev \in {"posted", "queued"}

\* the messages read as the body: those of a transfer, which can go on, and
\* for any other lookup the responses without an authority section
Bodies(lk) ==
    IF lk.doing_xfr THEN Transfers(lk)
    ELSE {m \in Responses(lk) : m.authority = <<>>}

\* the handler of a completed TCP receive posts the other kind of receive,
\* if any, and no send
C39_Alternates ==
    \A l \in Lookups : \A q \in Queries(l) :
        Alternating(l, q) =>
            IF lookups[l].queries[q].recv_cb = "tcp_length_done"
            THEN LET s == tcp_length_done(State, l, q, "success", FALSE)
                 IN  /\ s.lookups[l].queries[q].recv_ev = "posted"
                     /\ s.lookups[l].queries[q].recv_cb = "recv_done"
                     /\ s.recvcount = recvcount
                     /\ s.sendcount = sendcount
            ELSE \A msg \in Bodies(lookups[l]) :
                 \A junk \in Junk(lookups[l], lookups[l].queries[q]) :
                     LET s == recv_done(Run({}), l, q, "success", msg, junk)
                     IN  (/\ Running(s) /\ s.lookups[l].phase # "freed"
                          /\ s.lookups[l].queries[q].recv_ev # "none") =>
                             /\ s.lookups[l].queries[q].recv_ev = "posted"
                             /\ s.lookups[l].queries[q].recv_cb = "tcp_length_done"
                             /\ s.recvcount = recvcount
                             /\ s.sendcount = sendcount

C39_OneReceive == C39_Counted /\ C39_Alternates

\* a UDP query was sent to a second time while its one receive is still
\* outstanding, and a TCP query is reading the body of a later message
C39_Witness ==
    \/ \E l \in Lookups : \E q \in Queries(l) :
           /\ Live /\ ~lookups[l].tcp_mode
           /\ lookups[l].queries[q].recv_ev = "posted"
           /\ Len(SelectSeq(lookups[l].sends, LAMBDA x : x = q)) > 1
           /\ recvcount = Cardinality(Receiving)
    \/ \E l \in Lookups : \E q \in Queries(l) :
           /\ Alternating(l, q)
           /\ lookups[l].queries[q].recv_cb = "recv_done"
           /\ lookups[l].queries[q].first_soa_rcvd

====
